---- MODULE Spec2Model ----
(***************************************************************************)
(* A model of the software renderer: the geometry pipeline of              *)
(* Graphics/Renderer (collect, camera space, back-face cull, lighting,     *)
(* near-plane clip, projection, screen-edge clips, viewport map) and the   *)
(* scanline rasteriser of Graphics/Rasteriser with its depth test.         *)
(*                                                                         *)
(* The source computes in double precision.  The model computes in exact   *)
(* rational arithmetic: a double is a pair <<n, d>> in lowest terms with   *)
(* d > 0, and <<0, 0>> stands for the result of a division by zero, which  *)
(* propagates through arithmetic and compares false (as NaN does).         *)
(* Rounding error of the doubles is therefore outside the model.           *)
(***************************************************************************)
EXTENDS Integers, Sequences, FiniteSets, TLC

\* --------------------------------------------------------------- bounds

\* Largest number of triangles in the mesh of the scene's model.
MaxTris == 2

\* Pixel extent of the render surface (RenderWindow::get_width/get_height).
Width == 3

Height == 2

\* Largest number of draw_shaded_row calls on the surface in SpecRow.
MaxDraws == 2

\* The surface of the scenes that are rendered whole, and the number of
\* render_scene calls made on it.
SceneWidth == 9

SceneHeight == 7

MaxCalls == 2

MaxPending == 3

MaxLineCoord == 4

MaxCorner == 3

\* The dimension of the Vector<T, N> and the dimensions of the
\* Matrix<T, M, N> that are constructed from initialiser lists.
VectorN == 3

MatrixM == 2

MatrixN == 2

\* ------------------------------------------------------ double arithmetic

Abs(n) == IF n < 0 THEN -n ELSE n

RECURSIVE GCD(_, _)
GCD(a, b) == IF b = 0 THEN a ELSE GCD(b, a % b)

NaN == <<0, 0>>

\* n/d with the common factor g taken out and the sign in the numerator.
Reduced(n, d, g) ==
    IF d < 0 THEN <<(-n) \div g, (-d) \div g>> ELSE <<n \div g, d \div g>>

\* The double n/d.
Rat(n, d) == IF d = 0 THEN NaN ELSE Reduced(n, d, GCD(Abs(n), Abs(d)))

Num(n) == <<n, 1>>

IsNaN(a) == a[2] = 0

\* Sums and products cancel common factors before they multiply, so that the
\* intermediate integers stay small.
SumOver(a, b, g) ==
    Rat(a[1] * (b[2] \div g) + b[1] * (a[2] \div g), (a[2] \div g) * b[2])

RAdd(a, b) ==
    IF IsNaN(a) \/ IsNaN(b) THEN NaN ELSE SumOver(a, b, GCD(a[2], b[2]))

RSub(a, b) == RAdd(a, <<-b[1], b[2]>>)

ProductOver(a, b, g1, g2) ==
    Rat((a[1] \div g1) * (b[1] \div g2), (a[2] \div g2) * (b[2] \div g1))

RMul(a, b) ==
    IF IsNaN(a) \/ IsNaN(b) THEN NaN
    ELSE ProductOver(a, b, GCD(Abs(a[1]), b[2]), GCD(Abs(b[1]), a[2]))

RDiv(a, b) ==
    IF IsNaN(a) \/ IsNaN(b) \/ b[1] = 0 THEN NaN
    ELSE RMul(a, IF b[1] < 0 THEN <<-b[2], -b[1]>> ELSE <<b[2], b[1]>>)

RNeg(a) == <<-a[1], a[2]>>

RLt(a, b) == ~IsNaN(a) /\ ~IsNaN(b) /\ a[1] * b[2] < b[1] * a[2]

RLe(a, b) == ~IsNaN(a) /\ ~IsNaN(b) /\ a[1] * b[2] <= b[1] * a[2]

RGt(a, b) == RLt(b, a)

RGe(a, b) == RLe(b, a)

\* floor() of <cmath>, as an integer.
Floor(a) == a[1] \div a[2]

\* round() of <cmath>: to the nearest integer, halves away from zero.
Round(a) ==
    IF a[1] >= 0 THEN (2 * a[1] + a[2]) \div (2 * a[2])
    ELSE -((2 * (-a[1]) + a[2]) \div (2 * a[2]))

\* Conversion of a double to int: truncation toward zero.
Trunc(a) == IF a[1] >= 0 THEN a[1] \div a[2] ELSE -((-a[1]) \div a[2])

\* ------------------------------------------------- Maths::Vector<double, 4>

Vec(x, y, z, w) == <<x, y, z, w>>

\* Zeros(n): n elements set to 0.
RECURSIVE Zeros(_)
Zeros(n) == IF n <= 0 THEN <<>> ELSE <<0>> \o Zeros(n - 1)

Thrown(exception) == [status |-> exception, value |-> <<>>]

Constructed(data) == [status |-> "constructed", value |-> data]

\* Vector<T, N>::Vector(std::initializer_list<T>): a length error for more
\* than N elements; otherwise the elements, then zeros up to N.
vector_from_list(elems, n) ==
    IF Len(elems) > n THEN Thrown("length_error")
    ELSE Constructed(elems \o Zeros(n - Len(elems)))

\* Matrix<T, M, N>::Matrix(std::initializer_list<T>): a length error for
\* more than M * N elements; otherwise the elements are stored and the rest
\* of the std::array, which no initialiser and no loop sets, keeps its
\* indeterminate values.
matrix_from_list(elems, m, n, indeterminate) ==
    IF Len(elems) > m * n THEN Thrown("length_error")
    ELSE Constructed(elems \o SubSeq(indeterminate, Len(elems) + 1, m * n))

VecI(x, y, z, w) == <<Num(x), Num(y), Num(z), Num(w)>>

VAdd(u, v) == <<RAdd(u[1], v[1]), RAdd(u[2], v[2]), RAdd(u[3], v[3]), RAdd(u[4], v[4])>>

VSub(u, v) == <<RSub(u[1], v[1]), RSub(u[2], v[2]), RSub(u[3], v[3]), RSub(u[4], v[4])>>

VScale(s, v) == <<RMul(s, v[1]), RMul(s, v[2]), RMul(s, v[3]), RMul(s, v[4])>>

dot(u, v) ==
    RAdd(RAdd(RMul(u[1], v[1]), RMul(u[2], v[2])),
         RAdd(RMul(u[3], v[3]), RMul(u[4], v[4])))

\* Cross product of the three leading components, w lane zeroed.
cross(u, v) ==
    Vec(RSub(RMul(u[2], v[3]), RMul(u[3], v[2])),
        RSub(RMul(u[3], v[1]), RMul(u[1], v[3])),
        RSub(RMul(u[1], v[2]), RMul(u[2], v[1])),
        Num(0))

\* ---------------------------------------------- Maths::Matrix<double, 4, 4>
\* A matrix is the tuple of its four rows, each a tuple of four doubles:
\* m[i + 1][j + 1] is the source's mat(i, j).

Mat(rows) == rows

\* Element (i, j) of the product: the contraction over k.
MatMulElem(a, b, i, j) ==
    RAdd(RAdd(RAdd(RMul(a[i][1], b[1][j]), RMul(a[i][2], b[2][j])),
              RMul(a[i][3], b[3][j])),
         RMul(a[i][4], b[4][j]))

MatMulRow(a, b, i) ==
    <<MatMulElem(a, b, i, 1), MatMulElem(a, b, i, 2), MatMulElem(a, b, i, 3),
      MatMulElem(a, b, i, 4)>>

MatMul(a, b) ==
    <<MatMulRow(a, b, 1), MatMulRow(a, b, 2), MatMulRow(a, b, 3), MatMulRow(a, b, 4)>>

MatVecElem(m, v, i) ==
    RAdd(RAdd(RAdd(RMul(m[i][1], v[1]), RMul(m[i][2], v[2])), RMul(m[i][3], v[3])),
         RMul(m[i][4], v[4]))

MatVec(m, v) ==
    <<MatVecElem(m, v, 1), MatVecElem(m, v, 2), MatVecElem(m, v, 3), MatVecElem(m, v, 4)>>

\* An angle is a whole number q of quarter turns (q * pi / 2 radians), the
\* angles whose sine and cosine are exact.
Sin(q) == Num(CASE q % 4 = 0 -> 0 [] q % 4 = 1 -> 1 [] q % 4 = 2 -> 0 [] OTHER -> -1)

Cos(q) == Num(CASE q % 4 = 0 -> 1 [] q % 4 = 1 -> 0 [] q % 4 = 2 -> -1 [] OTHER -> 0)

Zero == Num(0)

One == Num(1)

make_enlargement(x, y, z) ==
    Mat(<< <<x, Zero, Zero, Zero>>,
           <<Zero, y, Zero, Zero>>,
           <<Zero, Zero, z, Zero>>,
           <<Zero, Zero, Zero, One>> >>)

make_rotation_yz_plane(x) ==
    Mat(<< <<One, Zero, Zero, Zero>>,
           <<Zero, Cos(x), Sin(x), Zero>>,
           <<Zero, RNeg(Sin(x)), Cos(x), Zero>>,
           <<Zero, Zero, Zero, One>> >>)

make_rotation_xz_plane(y) ==
    Mat(<< <<Cos(y), Zero, RNeg(Sin(y)), Zero>>,
           <<Zero, One, Zero, Zero>>,
           <<Sin(y), Zero, Cos(y), Zero>>,
           <<Zero, Zero, Zero, One>> >>)

make_rotation_xy_plane(z) ==
    Mat(<< <<Cos(z), RNeg(Sin(z)), Zero, Zero>>,
           <<Sin(z), Cos(z), Zero, Zero>>,
           <<Zero, Zero, One, Zero>>,
           <<Zero, Zero, Zero, One>> >>)

make_rotation_model(x, y, z) ==
    MatMul(MatMul(make_rotation_xz_plane(y), make_rotation_xy_plane(z)),
           make_rotation_yz_plane(x))

make_rotation_world(x, y, z) ==
    MatMul(MatMul(make_rotation_yz_plane(x), make_rotation_xz_plane(y)),
           make_rotation_xy_plane(z))

make_translation(x, y, z) ==
    Mat(<< <<One, Zero, Zero, x>>,
           <<Zero, One, Zero, y>>,
           <<Zero, Zero, One, z>>,
           <<Zero, Zero, Zero, One>> >>)

\* position and scale are vectors of doubles, rotation a vector of angles.
model_transform(model) ==
    MatMul(MatMul(make_translation(model.position[1], model.position[2],
                                   model.position[3]),
                  make_rotation_model(model.rotation[1], model.rotation[2],
                                      model.rotation[3])),
           make_enlargement(model.scale[1], model.scale[2], model.scale[3]))

\* ------------------------------------------------------- Graphics::Point

Point(pos, i, r, g, b, tex_x, tex_y, inv_z, i_div_z, r_div_z, g_div_z, b_div_z, tex_x_div_z, tex_y_div_z) ==
    [pos |-> pos, i |-> i, r |-> r, g |-> g, b |-> b,
     tex_x |-> tex_x, tex_y |-> tex_y,
     inv_z |-> inv_z, i_div_z |-> i_div_z, r_div_z |-> r_div_z,
     g_div_z |-> g_div_z, b_div_z |-> b_div_z,
     tex_x_div_z |-> tex_x_div_z, tex_y_div_z |-> tex_y_div_z]

\* A Triangle is [points |-> <<p0, p1, p2>>]; points[k + 1] is the source's
\* points[k].
Triangle(p0, p1, p2) == [points |-> <<p0, p1, p2>>]

\* A triangle whose points are assigned one by one: nothing else of it changes.
WithPoints(triangle, p0, p1, p2) == [triangle EXCEPT !.points = <<p0, p1, p2>>]

\* ---------------------------------------------------- Renderer parameters

\* 1 / tan(fov), for a field of view whose tangent is 1.
view_plane_distance == Rat(1, 1)

aspect_ratio == Rat(4, 3)

screen_left_bound == Num(-1)

screen_right_bound == Num(1)

screen_top_bound == RDiv(Num(1), aspect_ratio)

screen_bottom_bound == RDiv(Num(-1), aspect_ratio)

\* ------------------------------------------------------- pipeline stages

transform_point(point, transform) ==
    [point EXCEPT !.pos = MatVec(transform, point.pos)]

transform_triangle(triangle, transform) ==
    WithPoints(triangle,
               transform_point(triangle.points[1], transform),
               transform_point(triangle.points[2], transform),
               transform_point(triangle.points[3], transform))

\* The inner loop of the collect step over the triangles t of one mesh, from
\* triangle k on: c is [triangles, active]; push_size says whether the index
\* pushed is triangles.size() after the push_back (the helper) or the count
\* of triangles pushed before (render_scene).
collect_push(c, triangle, push_size) ==
    [triangles |-> Append(c.triangles, triangle),
     active |-> Append(c.active,
                       IF push_size THEN Len(c.triangles) + 1 ELSE Len(c.triangles))]

RECURSIVE collect_mesh(_, _, _, _, _)
collect_mesh(c, mesh, k, matrix_model, push_size) ==
    IF k > Len(mesh) THEN c
    ELSE collect_mesh(collect_push(c, transform_triangle(mesh[k], matrix_model), push_size),
                      mesh, k + 1, matrix_model, push_size)

RECURSIVE collect_models(_, _, _, _)
collect_models(c, models, m, push_size) ==
    IF m > Len(models) THEN c
    ELSE collect_models(
             collect_mesh(c, models[m].mesh, 1, model_transform(models[m]), push_size),
             models, m + 1, push_size)

\* render_scene's collect loop: active_indices.push_back(triangle_count),
\* with triangle_count the number of triangles pushed before this one.
collect_render_scene(models) ==
    collect_models([triangles |-> <<>>, active |-> <<>>], models, 1, FALSE)

\* build_triangles_list_from_models: active_indices.push_back(triangles.size())
\* after the push_back of the triangle.
build_triangles_list_from_models(models) ==
    collect_models([triangles |-> <<>>, active |-> <<>>], models, 1, TRUE)

camera_transform(camera) ==
    MatMul(make_rotation_world(-camera.rotation[1], -camera.rotation[2],
                               -camera.rotation[3]),
           make_translation(RNeg(camera.position[1]), RNeg(camera.position[2]),
                            RNeg(camera.position[3])))

RECURSIVE camera_loop(_, _, _, _)
camera_loop(triangles, active, itr, transform) ==
    IF itr > Len(active) THEN triangles
    ELSE camera_loop(
             [triangles EXCEPT ![active[itr] + 1] = transform_triangle(@, transform)],
             active, itr + 1, transform)

convert_triangles_to_camera_space(triangles, active, camera) ==
    camera_loop(triangles, active, 1, camera_transform(camera))

view_dir == VecI(0, 0, 1, 0)

\* The face normal the cull stage computes: (v1 - v0) x (v2 - v1).
cull_normal(triangle) ==
    cross(VSub(triangle.points[2].pos, triangle.points[1].pos),
          VSub(triangle.points[3].pos, triangle.points[2].pos))

\* The cull test with the comparison turned round.
is_back_face_flipped(triangle) ==
    RLt(dot(cull_normal(triangle), view_dir), Num(0))

\* Whether the cull stage erases the triangle's index.
\* A test on the size of the dot product alone, whatever its sign.
is_back_face_either_way(triangle) ==
    ~(dot(cull_normal(triangle), view_dir) = Num(0))

is_back_face(triangle) == RGt(dot(cull_normal(triangle), view_dir), Num(0))

\* The sequence s without its element at position k (std::list::erase).
Erase(s, k) == SubSeq(s, 1, k - 1) \o SubSeq(s, k + 1, Len(s))

\* The loop with the iterator advanced past the element that follows an
\* erased one (itr = erase(itr) and then itr++).
RECURSIVE cull_loop_skipping(_, _, _)
cull_loop_skipping(triangles, active, itr) ==
    IF itr > Len(active) THEN active
    ELSE IF RGt(dot(cull_normal(triangles[active[itr] + 1]), view_dir), Num(0))
         THEN cull_loop_skipping(triangles, Erase(active, itr), itr + 1)
         ELSE cull_loop_skipping(triangles, active, itr + 1)

RECURSIVE cull_loop(_, _, _)
cull_loop(triangles, active, itr) ==
    IF itr > Len(active) THEN active
    ELSE IF is_back_face(triangles[active[itr] + 1])
         THEN cull_loop(triangles, Erase(active, itr), itr)
         ELSE cull_loop(triangles, active, itr + 1)

cull_triangle_back_faces(triangles, active) == cull_loop(triangles, active, 1)

\* sqrt() of <cmath>, on the doubles whose square root is exact.
ISqrt(n) == CHOOSE k \in 0..n : k * k = n

Sqrt(a) == <<ISqrt(a[1]), ISqrt(a[2])>>

VDiv(v, len) == <<RDiv(v[1], len), RDiv(v[2], len), RDiv(v[3], len), RDiv(v[4], len)>>

normalise(v) == VDiv(v, Sqrt(dot(v, v)))

AddIntensity(triangle, amounts) ==
    WithPoints(triangle,
               [triangle.points[1] EXCEPT !.i = RAdd(@, amounts[1])],
               [triangle.points[2] EXCEPT !.i = RAdd(@, amounts[2])],
               [triangle.points[3] EXCEPT !.i = RAdd(@, amounts[3])])

\* What a point light adds to the intensity of one vertex.
point_light_amount(point, light) ==
    RMul(dot(normalise(VSub(point.pos, light.vec)), normalise(point.pos)),
         light.intensity)

\* What a directional light adds to the intensity of every vertex.
direction_light_amount(triangle, light) ==
    RMul(dot(normalise(cross(VSub(triangle.points[2].pos, triangle.points[1].pos),
                             VSub(triangle.points[3].pos, triangle.points[1].pos))),
             normalise(light.vec)),
         light.intensity)

Thrice(amount) == <<amount, amount, amount>>

\* What one light adds to the three vertex intensities of a triangle.
light_amounts(triangle, light) ==
    CASE light.type = "AMBIENT" -> <<light.intensity, light.intensity, light.intensity>>
      [] light.type = "DIRECTION" -> Thrice(direction_light_amount(triangle, light))
      [] light.type = "POINT" ->
            <<point_light_amount(triangle.points[1], light),
              point_light_amount(triangle.points[2], light),
              point_light_amount(triangle.points[3], light)>>

RECURSIVE lights_loop(_, _, _)
lights_loop(triangle, lights, i) ==
    IF i > Len(lights) THEN triangle
    ELSE lights_loop(AddIntensity(triangle, light_amounts(triangle, lights[i])),
                     lights, i + 1)

clamp_intensity(i) ==
    IF RLt(i, Num(0)) THEN Num(0) ELSE IF RGt(i, Num(1)) THEN Num(1) ELSE i

clamp_triangle(lit) ==
    WithPoints(lit,
               [lit.points[1] EXCEPT !.i = clamp_intensity(@)],
               [lit.points[2] EXCEPT !.i = clamp_intensity(@)],
               [lit.points[3] EXCEPT !.i = clamp_intensity(@)])

light_triangle(triangle, lights) == clamp_triangle(lights_loop(triangle, lights, 1))

RECURSIVE lighting_loop(_, _, _, _)
lighting_loop(triangles, active, itr, lights) ==
    IF itr > Len(active) THEN triangles
    ELSE lighting_loop(
             [triangles EXCEPT ![active[itr] + 1] = light_triangle(@, lights)],
             active, itr + 1, lights)

compute_triangle_lighting(triangles, active, lights) ==
    lighting_loop(triangles, active, 1, lights)

\* ------------------------------------------------------------- clipping

Lerp(a, b, scale) == RAdd(a, RMul(scale, RSub(b, a)))

\* A near-plane test that keeps everything in front of the eye.
near_in_front_of_eye(point) == RGe(point.pos[3], Num(0))

\* The two lambdas clip_near_plane passes to clip_triangles.
near_in(point) == RGe(point.pos[3], view_plane_distance)

near_scaled_point(point_1, point_2, scale, diff) ==
    Point(VAdd(point_1.pos, VScale(scale, diff)),
          Lerp(point_1.i, point_2.i, scale),
          Lerp(point_1.r, point_2.r, scale),
          Lerp(point_1.g, point_2.g, scale),
          Lerp(point_1.b, point_2.b, scale),
          Lerp(point_1.tex_x, point_2.tex_x, scale),
          Lerp(point_1.tex_y, point_2.tex_y, scale),
          Zero, Zero, Zero, Zero, Zero, Zero, Zero)

\* An intersection taken half way along the edge, wherever the plane is.
near_intersect_at_midpoint(point_1, point_2, diff) ==
    near_scaled_point(point_1, point_2, Rat(1, 2), diff)

near_intersect_along(point_1, point_2, diff) ==
    near_scaled_point(point_1, point_2,
                      RDiv(RSub(view_plane_distance, point_1.pos[3]), diff[3]), diff)

near_intersect(point_1, point_2) ==
    near_intersect_along(point_1, point_2, VSub(point_2.pos, point_1.pos))

make_scaled_point_2d(point_1, point_2, scale, diff) ==
    Point(VAdd(point_1.pos, VScale(scale, diff)),
          Zero, Zero, Zero, Zero, Zero, Zero,
          Lerp(point_1.inv_z, point_2.inv_z, scale),
          Lerp(point_1.i_div_z, point_2.i_div_z, scale),
          Lerp(point_1.r_div_z, point_2.r_div_z, scale),
          Lerp(point_1.g_div_z, point_2.g_div_z, scale),
          Lerp(point_1.b_div_z, point_2.b_div_z, scale),
          Lerp(point_1.tex_x_div_z, point_2.tex_x_div_z, scale),
          Lerp(point_1.tex_y_div_z, point_2.tex_y_div_z, scale))

\* The lambdas of clip_left_bound, clip_right_bound, clip_top_bound and
\* clip_bottom_bound.
left_in(point) == RGt(point.pos[1], screen_left_bound)

right_in(point) == RLt(point.pos[1], screen_right_bound)

top_in(point) == RLt(point.pos[2], screen_top_bound)

\* A bottom-edge test that keeps every point.
bottom_in_everything(point) == TRUE

bottom_in(point) == RGt(point.pos[2], screen_bottom_bound)

\* The intersection lambda of a screen-edge pass: axis is the coordinate the
\* edge bounds (1 for x, 2 for y).
edge_intersect_along(point_1, point_2, bound, axis, diff) ==
    make_scaled_point_2d(point_1, point_2,
                         RDiv(RSub(bound, point_1.pos[axis]), diff[axis]), diff)

edge_intersect(point_1, point_2, bound, axis) ==
    edge_intersect_along(point_1, point_2, bound, axis, VSub(point_2.pos, point_1.pos))

left_intersect(point_1, point_2) ==
    edge_intersect(point_1, point_2, screen_left_bound, 1)

right_intersect(point_1, point_2) ==
    edge_intersect(point_1, point_2, screen_right_bound, 1)

top_intersect(point_1, point_2) ==
    edge_intersect(point_1, point_2, screen_top_bound, 2)

bottom_intersect(point_1, point_2) ==
    edge_intersect(point_1, point_2, screen_bottom_bound, 2)

\* The functors of a clip pass, by the pass that supplies them.
Planes == {"near", "left", "right", "top", "bottom"}

in_viewing_region(plane, point) ==
    CASE plane = "near" -> near_in(point)
      [] plane = "left" -> left_in(point)
      [] plane = "right" -> right_in(point)
      [] plane = "top" -> top_in(point)
      [] plane = "bottom" -> bottom_in(point)

get_intersect(plane, point_1, point_2) ==
    CASE plane = "near" -> near_intersect(point_1, point_2)
      [] plane = "left" -> left_intersect(point_1, point_2)
      [] plane = "right" -> right_intersect(point_1, point_2)
      [] plane = "top" -> top_intersect(point_1, point_2)
      [] plane = "bottom" -> bottom_intersect(point_1, point_2)

RECURSIVE PointsOf(_)
PointsOf(tagged) ==
    IF tagged = <<>> THEN <<>> ELSE <<tagged[1].pt>> \o PointsOf(Tail(tagged))

RECURSIVE SourcesOf(_)
SourcesOf(tagged) ==
    IF tagged = <<>> THEN <<>> ELSE <<tagged[1].src>> \o SourcesOf(Tail(tagged))

\* The first half of an iteration of clip_points' loop over i (0-based, as in
\* the source): vertex i is emitted when it is inside.  out is a sequence of
\* [pt, src], src naming where the point comes from: <<i>> for input vertex
\* i, <<i, next_i>> for the intersection on the edge from vertex i to vertex
\* next_i.
emit_inside(triangle, in_points, out, i) ==
    IF in_points[i + 1]
    THEN Append(out, [pt |-> triangle.points[i + 1], src |-> <<i>>])
    ELSE out

\* A second half that asks for the intersection on every edge.
emit_crossing_on_every_edge(triangle, in_points, plane, out, i, next_i) ==
    Append(out, [pt |-> get_intersect(plane, triangle.points[i + 1],
                                      triangle.points[next_i + 1]),
                 src |-> <<i, next_i>>])

\* The second half: the intersection is emitted when the edge from vertex i
\* to vertex next_i crosses the boundary.
emit_crossing(triangle, in_points, plane, out, i, next_i) ==
    IF in_points[i + 1] # in_points[next_i + 1]
    THEN Append(out, [pt |-> get_intersect(plane, triangle.points[i + 1],
                                           triangle.points[next_i + 1]),
                      src |-> <<i, next_i>>])
    ELSE out

\* An iteration that emits the intersection only on leaving the region.
clip_points_step_leaving_only(triangle, in_points, plane, out, i) ==
    IF in_points[i + 1] /\ ~in_points[((i + 1) % 3) + 1]
    THEN emit_crossing(triangle, in_points, plane,
                       emit_inside(triangle, in_points, out, i), i, (i + 1) % 3)
    ELSE emit_inside(triangle, in_points, out, i)

\* One iteration of clip_points' loop.
clip_points_step(triangle, in_points, plane, out, i) ==
    emit_crossing(triangle, in_points, plane,
                  emit_inside(triangle, in_points, out, i), i, (i + 1) % 3)

\* in_points: in_points_of(...)[i + 1] is the source's in_points[i].
in_points_of(triangle, plane) ==
    <<in_viewing_region(plane, triangle.points[1]),
      in_viewing_region(plane, triangle.points[2]),
      in_viewing_region(plane, triangle.points[3])>>

clip_points_over(triangle, in_points, plane) ==
    clip_points_step(triangle, in_points, plane,
        clip_points_step(triangle, in_points, plane,
            clip_points_step(triangle, in_points, plane, <<>>, 0), 1), 2)

\* clip_points: the emitted vertices, in order, each with its source.
clip_points(triangle, plane) ==
    clip_points_over(triangle, in_points_of(triangle, plane), plane)

\* make_triangles: in_points is the sequence of emitted points; the result is
\* the sequence of the triangle_count triangles written to out_triangles.
RECURSIVE make_triangles_loop(_, _, _, _)
make_triangles_loop(num_vertices, in_points, i, out_triangles) ==
    IF ~(i < num_vertices - 1) THEN out_triangles
    ELSE make_triangles_loop(num_vertices, in_points, i + 1,
             Append(out_triangles,
                    Triangle(in_points[1], in_points[i + 1], in_points[i + 2])))

\* A fan whose triangles list their second and third vertices swapped.
RECURSIVE make_triangles_swapped_loop(_, _, _, _)
make_triangles_swapped_loop(num_vertices, in_points, i, out_triangles) ==
    IF ~(i < num_vertices - 1) THEN out_triangles
    ELSE make_triangles_swapped_loop(num_vertices, in_points, i + 1,
             Append(out_triangles,
                    Triangle(in_points[1], in_points[i + 2], in_points[i + 1])))

make_triangles_swapped(num_vertices, in_points) ==
    make_triangles_swapped_loop(num_vertices, in_points, 1, <<>>)

make_triangles(num_vertices, in_points) ==
    make_triangles_loop(num_vertices, in_points, 1, <<>>)

\* What clip_triangles records of one iteration.
clip_entry(plane, index, curr_triangle, clipped, out_triangles) ==
    [plane |-> plane, index |-> index,
     in_points |-> in_points_of(curr_triangle, plane),
     src |-> SourcesOf(clipped),
     points |-> PointsOf(clipped),
     num_clipped_points |-> Len(clipped),
     triangle |-> curr_triangle,
     out_triangles |-> out_triangles]

\* A switch that keeps the second triangle in the slot and appends the first.
clip_switch_appending_first(st, index, out_triangles, entry) ==
    CASE Len(out_triangles) = 0 ->
            [st EXCEPT !.active = Erase(@, st.itr), !.log = Append(@, entry)]
      [] Len(out_triangles) = 1 ->
            [st EXCEPT !.triangles[index + 1] = out_triangles[1],
                       !.itr = @ + 1,
                       !.log = Append(@, entry)]
      [] Len(out_triangles) = 2 ->
            [triangles |-> Append([st.triangles EXCEPT ![index + 1] = out_triangles[2]],
                                  out_triangles[1]),
             active |-> <<Len(st.triangles)>> \o st.active,
             itr |-> st.itr + 2,
             log |-> Append(st.log, entry)]
      [] OTHER -> [st EXCEPT !.itr = @ + 1, !.log = Append(@, entry)]

\* A switch that adds the index of the appended triangle at the back of the
\* list, where the iterator will come to it.
clip_switch_pushing_back(st, index, out_triangles, entry) ==
    CASE Len(out_triangles) = 0 ->
            [st EXCEPT !.active = Erase(@, st.itr), !.log = Append(@, entry)]
      [] Len(out_triangles) = 1 ->
            [st EXCEPT !.triangles[index + 1] = out_triangles[1],
                       !.itr = @ + 1,
                       !.log = Append(@, entry)]
      [] Len(out_triangles) = 2 ->
            [triangles |-> Append([st.triangles EXCEPT ![index + 1] = out_triangles[1]],
                                  out_triangles[2]),
             active |-> st.active \o <<Len(st.triangles)>>,
             itr |-> st.itr + 1,
             log |-> Append(st.log, entry)]
      [] OTHER -> [st EXCEPT !.itr = @ + 1, !.log = Append(@, entry)]

\* The switch on num_triangles.  st is the state of the loop: triangles,
\* active, itr (the position of the iterator in the list, 1-based) and log.
clip_switch(st, index, out_triangles, entry) ==
    CASE Len(out_triangles) = 0 ->
            [st EXCEPT !.active = Erase(@, st.itr), !.log = Append(@, entry)]
      [] Len(out_triangles) = 1 ->
            [st EXCEPT !.triangles[index + 1] = out_triangles[1],
                       !.itr = @ + 1,
                       !.log = Append(@, entry)]
      [] Len(out_triangles) = 2 ->
            [triangles |-> Append([st.triangles EXCEPT ![index + 1] = out_triangles[1]],
                                  out_triangles[2]),
             active |-> <<Len(st.triangles)>> \o st.active,
             itr |-> st.itr + 2,
             log |-> Append(st.log, entry)]
      [] OTHER -> [st EXCEPT !.itr = @ + 1, !.log = Append(@, entry)]

clip_made(plane, st, index, clipped, out_triangles) ==
    clip_switch(st, index, out_triangles,
                clip_entry(plane, index, st.triangles[index + 1], clipped, out_triangles))

clip_clipped(plane, st, index, clipped) ==
    clip_made(plane, st, index, clipped, make_triangles(Len(clipped), PointsOf(clipped)))

\* One iteration of clip_triangles' loop.
clip_iteration(plane, st) ==
    clip_clipped(plane, st, st.active[st.itr],
                 clip_points(st.triangles[st.active[st.itr] + 1], plane))

RECURSIVE clip_loop(_, _)
clip_loop(plane, st) ==
    IF st.itr > Len(st.active)
    THEN [triangles |-> st.triangles, active |-> st.active, log |-> st.log]
    ELSE clip_loop(plane, clip_iteration(plane, st))

clip_triangles(triangles, active, plane) ==
    clip_loop(plane, [triangles |-> triangles, active |-> active, itr |-> 1, log |-> <<>>])

clip_near_plane(triangles, active) == clip_triangles(triangles, active, "near")

clip_left_bound(triangles, active) == clip_triangles(triangles, active, "left")

clip_right_bound(triangles, active) == clip_triangles(triangles, active, "right")

clip_top_bound(triangles, active) == clip_triangles(triangles, active, "top")

clip_bottom_bound(triangles, active) == clip_triangles(triangles, active, "bottom")

\* ------------------------------------------- projection and viewport map

projected_point(point, z, z_near_div_z) ==
    [point EXCEPT
        !.pos = Vec(RMul(point.pos[1], z_near_div_z),
                    RMul(point.pos[2], z_near_div_z), z, point.pos[4]),
        !.inv_z = RDiv(Num(1), z),
        !.i_div_z = RDiv(point.i, z),
        !.r_div_z = RDiv(point.r, z),
        !.g_div_z = RDiv(point.g, z),
        !.b_div_z = RDiv(point.b, z),
        !.tex_x_div_z = RDiv(point.tex_x, z),
        !.tex_y_div_z = RDiv(point.tex_y, z)]

project_point(point) ==
    projected_point(point, point.pos[3], RDiv(view_plane_distance, point.pos[3]))

RECURSIVE project_loop(_, _, _)
project_loop(triangles, active, itr) ==
    IF itr > Len(active) THEN triangles
    ELSE project_loop(
             [triangles EXCEPT ![active[itr] + 1] =
                 WithPoints(@, project_point(@.points[1]), project_point(@.points[2]),
                            project_point(@.points[3]))],
             active, itr + 1)

perspective_project_triangles(triangles, active) ==
    project_loop(triangles, active, 1)

pixel_point(point, buffer_width, buffer_height) ==
    [point EXCEPT
        !.pos = Vec(
            Num(Round(RMul(RDiv(RSub(point.pos[1], screen_left_bound),
                                RSub(screen_right_bound, screen_left_bound)),
                           Num(buffer_width - 1)))),
            Num((buffer_height - 1)
                - Round(RMul(RDiv(RSub(point.pos[2], screen_bottom_bound),
                                  RSub(screen_top_bound, screen_bottom_bound)),
                             Num(buffer_height - 1)))),
            point.pos[3], point.pos[4])]

RECURSIVE pixel_loop(_, _, _, _, _)
pixel_loop(triangles, active, itr, buffer_width, buffer_height) ==
    IF itr > Len(active) THEN triangles
    ELSE pixel_loop(
             [triangles EXCEPT ![active[itr] + 1] =
                 WithPoints(@, pixel_point(@.points[1], buffer_width, buffer_height),
                            pixel_point(@.points[2], buffer_width, buffer_height),
                            pixel_point(@.points[3], buffer_width, buffer_height))],
             active, itr + 1, buffer_width, buffer_height)

convert_triangles_to_pixel_space(triangles, active, buffer_width, buffer_height) ==
    pixel_loop(triangles, active, 1, buffer_width, buffer_height)

\* ------------------------------------------------- the render surface

\* The shifts X11RGBARenderWindow's constructor computes from the visual's
\* colour masks, here those of a 24-bit true-colour visual (masks 0xff0000,
\* 0x00ff00, 0x0000ff).
red_shift == 16

green_shift == 8

blue_shift == 0

RECURSIVE Pow2(_)
Pow2(n) == IF n = 0 THEN 1 ELSE 2 * Pow2(n - 1)

\* (red << red_shift) | (green << green_shift) | (blue << blue_shift); the
\* three fields do not overlap, so the bitwise or is a sum.
pixel_val(red, green, blue) ==
    red * Pow2(red_shift) + green * Pow2(green_shift) + blue * Pow2(blue_shift)

\* The surface after clear: rgba_buffer has width * height cells, cell
\* y * width + x (the model's sequences count from 1) for the pixel (x, y);
\* the depth buffer has the same size and layout and starts at zero.  The
\* other fields record what the drawing calls did: rows, the draw_shaded_row
\* calls of draw_shaded_triangle in order; stray, the indices of the
\* stores that fell outside the buffers; stores, the coordinates every
\* draw_pixel and write_depth_buffer was called with; fragments, for every
\* cell the fragments submitted at its pixel, oldest first.
ClearSurface(width, height) ==
    [width |-> width,
     height |-> height,
     rgba_buffer |-> [c \in 1..(width * height) |-> 0],
     depth_buffer |-> [c \in 1..(width * height) |-> Zero],
     stray |-> {},
     stores |-> {},
     fragments |-> [c \in 1..(width * height) |-> <<>>],
     rows |-> <<>>,
     reads |-> {}]

InBuffer(surface, x, y) ==
    x >= 0 /\ x < surface.width /\ y >= 0 /\ y < surface.height

CellOf(surface, x, y) == y * surface.width + x + 1

\* X11RGBARenderWindow::draw_pixel: an unchecked store to
\* rgba_buffer[y * width + x].  A store past the end of the vector is
\* undefined; the model records its index and leaves the buffer alone.
draw_pixel(surface, x, y, red, green, blue) ==
    IF (y * surface.width + x) \in 0..(surface.width * surface.height - 1)
    THEN [surface EXCEPT !.stores = @ \cup {<<x, y>>},
                         !.rgba_buffer[y * surface.width + x + 1] =
                             pixel_val(red, green, blue)]
    ELSE [surface EXCEPT !.stores = @ \cup {<<x, y>>},
                         !.stray = @ \cup {y * surface.width + x}]

\* RenderWindow::read_depth_buffer.  A read outside the buffer yields
\* whatever the memory there holds: garbage[x] for the column x of the
\* surface; for x outside the surface the caller's bounds test fails whatever
\* is read.
read_depth_buffer(surface, x, y, garbage) ==
    IF InBuffer(surface, x, y) THEN surface.depth_buffer[CellOf(surface, x, y)]
    ELSE IF x \in DOMAIN garbage THEN garbage[x]
    ELSE Zero

\* RenderWindow::write_depth_buffer.
write_depth_buffer(surface, x, y, val) ==
    IF (y * surface.width + x) \in 0..(surface.width * surface.height - 1)
    THEN [surface EXCEPT !.stores = @ \cup {<<x, y>>},
                         !.depth_buffer[y * surface.width + x + 1] = val]
    ELSE [surface EXCEPT !.stores = @ \cup {<<x, y>>},
                         !.stray = @ \cup {y * surface.width + x}]

\* --------------------------------------------------------- the rasteriser

\* Graphics::pixel_coord: x and y are ints, the rest doubles.
pixel_coord(x, y, inv_z, i_div_z, r_div_z, g_div_z, b_div_z, tex_x_div_z, tex_y_div_z) ==
    [x |-> x, y |-> y, inv_z |-> inv_z, i_div_z |-> i_div_z,
     r_div_z |-> r_div_z, g_div_z |-> g_div_z, b_div_z |-> b_div_z,
     tex_x_div_z |-> tex_x_div_z, tex_y_div_z |-> tex_y_div_z]

\* The interpolated quantities of a row or of an edge.
Attributes(p) ==
    [inv_z |-> p.inv_z, i_div_z |-> p.i_div_z,
     r_div_z |-> p.r_div_z, g_div_z |-> p.g_div_z, b_div_z |-> p.b_div_z,
     tex_x_div_z |-> p.tex_x_div_z, tex_y_div_z |-> p.tex_y_div_z]

\* (to - from) / num_steps, quantity by quantity.
AttributeSteps(from, to, num_steps) ==
    [inv_z |-> RDiv(RSub(to.inv_z, from.inv_z), Num(num_steps)),
     i_div_z |-> RDiv(RSub(to.i_div_z, from.i_div_z), Num(num_steps)),
     r_div_z |-> RDiv(RSub(to.r_div_z, from.r_div_z), Num(num_steps)),
     g_div_z |-> RDiv(RSub(to.g_div_z, from.g_div_z), Num(num_steps)),
     b_div_z |-> RDiv(RSub(to.b_div_z, from.b_div_z), Num(num_steps)),
     tex_x_div_z |-> RDiv(RSub(to.tex_x_div_z, from.tex_x_div_z), Num(num_steps)),
     tex_y_div_z |-> RDiv(RSub(to.tex_y_div_z, from.tex_y_div_z), Num(num_steps))]

\* The increments at the end of an iteration.
AddSteps(cur, steps) ==
    [inv_z |-> RAdd(cur.inv_z, steps.inv_z),
     i_div_z |-> RAdd(cur.i_div_z, steps.i_div_z),
     r_div_z |-> RAdd(cur.r_div_z, steps.r_div_z),
     g_div_z |-> RAdd(cur.g_div_z, steps.g_div_z),
     b_div_z |-> RAdd(cur.b_div_z, steps.b_div_z),
     tex_x_div_z |-> RAdd(cur.tex_x_div_z, steps.tex_x_div_z),
     tex_y_div_z |-> RAdd(cur.tex_y_div_z, steps.tex_y_div_z)]

\* Rasteriser.cpp's static clamp.
clamp(val, low, high) ==
    IF RLt(val, low) THEN low ELSE IF RGt(val, high) THEN high ELSE val

\* static_cast<uint8_t>(clamp(v, 0, 255)).
ColourByte(v) == Trunc(clamp(v, Num(0), Num(255)))

\* A Resources::TrueColourBitmap*: nullptr, or a bitmap of width * height
\* pixels, each [r, g, b].
nullptr == [null |-> TRUE]

TrueColourBitmap(width, height, pixels) ==
    [null |-> FALSE, width |-> width, height |-> height, pixels |-> pixels]

\* The two ifs that keep a texel coordinate within 0..size - 1.
clamp_texel(pixel, size) ==
    IF pixel < 0 THEN 0 ELSE IF pixel > size - 1 THEN size - 1 ELSE pixel

\* The texel index without pixel_y = height - 1 - pixel_y.
texel_index_unflipped(bitmap_ptr, tex_x, tex_y) ==
    clamp_texel(Round(RMul(tex_y, Num(bitmap_ptr.height - 1))), bitmap_ptr.height)
      * bitmap_ptr.width
    + clamp_texel(Round(RMul(tex_x, Num(bitmap_ptr.width - 1))), bitmap_ptr.width)

\* The texel index draw_shaded_row computes for a bitmap.
texel_index(bitmap_ptr, tex_x, tex_y) ==
    (bitmap_ptr.height - 1
       - clamp_texel(Round(RMul(tex_y, Num(bitmap_ptr.height - 1))), bitmap_ptr.height))
      * bitmap_ptr.width
    + clamp_texel(Round(RMul(tex_x, Num(bitmap_ptr.width - 1))), bitmap_ptr.width)

\* mix_r, mix_g, mix_b when there is a bitmap.
texel_mix(texel, r, g, b) ==
    [r |-> RMul(Num(texel.r), RDiv(r, Num(255))),
     g |-> RMul(Num(texel.g), RDiv(g, Num(255))),
     b |-> RMul(Num(texel.b), RDiv(b, Num(255)))]

\* mix_r, mix_g, mix_b.
colour_mix(cur, bitmap_ptr) ==
    IF bitmap_ptr.null
    THEN [r |-> RDiv(cur.r_div_z, cur.inv_z),
          g |-> RDiv(cur.g_div_z, cur.inv_z),
          b |-> RDiv(cur.b_div_z, cur.inv_z)]
    ELSE texel_mix(bitmap_ptr.pixels[texel_index(bitmap_ptr,
                                                 RDiv(cur.tex_x_div_z, cur.inv_z),
                                                 RDiv(cur.tex_y_div_z, cur.inv_z)) + 1],
                   RDiv(cur.r_div_z, cur.inv_z),
                   RDiv(cur.g_div_z, cur.inv_z),
                   RDiv(cur.b_div_z, cur.inv_z))

\* The three bytes handed to draw_pixel.
shaded_colour(mix, intensity) ==
    [red |-> ColourByte(RMul(mix.r, intensity)),
     green |-> ColourByte(RMul(mix.g, intensity)),
     blue |-> ColourByte(RMul(mix.b, intensity))]

\* The colour of the fragment: r, g, b mixed with the texel when there is a
\* bitmap, times the intensity.
fragment_colour(cur, bitmap_ptr) ==
    shaded_colour(colour_mix(cur, bitmap_ptr), RDiv(cur.i_div_z, cur.inv_z))

\* The fragment recorded for its cell when it is submitted at a pixel of the
\* surface: its 1/z, its colour, the depth it was compared with and whether
\* it was written.
NoteFragment(surface, x, y, entry) ==
    IF InBuffer(surface, x, y)
    THEN [surface EXCEPT !.fragments[CellOf(surface, x, y)] = Append(@, entry)]
    ELSE surface

\* A depth test that also lets a fragment of equal 1/z through.
depth_test_passes_or_equal(inv_z, depth_buff_val) == RGe(inv_z, depth_buff_val)

\* A depth test that keeps the farther fragment.
depth_test_passes_farther(inv_z, depth_buff_val) == RLt(inv_z, depth_buff_val)

\* The depth comparison of draw_shaded_row's condition.
depth_test_passes(inv_z, depth_buff_val) == RGt(inv_z, depth_buff_val)

\* The loop of draw_shaded_row from column i on.  depth_test is TRUE for the
\* rasteriser as written; FALSE leaves the comparison with the depth buffer
\* out of the condition (the "always accept" rasteriser).
\* The surface with a call of read_depth_buffer(x, y) noted.
NoteRead(surface, x, y) == [surface EXCEPT !.reads = @ \cup {<<x, y>>}]

\* The colour noted for a fragment that is not written: the one it would have
\* been drawn with. The bytes are only computed inside the if; with 1/z = 0
\* the quotients are not numbers and no colour is noted.
NotedColour(cur, colour) ==
    IF IsNaN(cur.inv_z) \/ cur.inv_z[1] = 0 THEN 0
    ELSE pixel_val(colour.red, colour.green, colour.blue)

RECURSIVE draw_shaded_row_loop(_, _, _, _, _, _, _, _, _, _, _)

\* The body of the if, or nothing, and the next iteration.
row_fragment(surface, i, p2_x, y, cur, steps, bitmap_ptr, buffer_width, buffer_height, garbage, depth_test, depth_buff_val, colour, visible) ==
    IF visible
    THEN draw_shaded_row_loop(
             NoteFragment(
                 write_depth_buffer(
                     draw_pixel(surface, i, y, colour.red, colour.green, colour.blue),
                     i, y, cur.inv_z),
                 i, y,
                 [inv_z |-> cur.inv_z,
                  colour |-> pixel_val(colour.red, colour.green, colour.blue),
                  stored |-> depth_buff_val, written |-> TRUE]),
             i + 1, p2_x, y, AddSteps(cur, steps), steps, bitmap_ptr, buffer_width,
             buffer_height, garbage, depth_test)
    ELSE draw_shaded_row_loop(
             NoteFragment(surface, i, y,
                 [inv_z |-> cur.inv_z,
                  colour |-> NotedColour(cur, colour),
                  stored |-> depth_buff_val, written |-> FALSE]),
             i + 1, p2_x, y, AddSteps(cur, steps), steps, bitmap_ptr, buffer_width,
             buffer_height, garbage, depth_test)

\* The condition of the if, on the depth read before it.
row_test(surface, i, p2_x, y, cur, steps, bitmap_ptr, buffer_width, buffer_height, garbage, depth_test, depth_buff_val) ==
    row_fragment(surface, i, p2_x, y, cur, steps, bitmap_ptr, buffer_width,
                 buffer_height, garbage, depth_test, depth_buff_val,
                 fragment_colour(cur, bitmap_ptr),
                 /\ depth_test_passes(cur.inv_z, depth_buff_val) \/ ~depth_test
                 /\ i >= 0
                 /\ i < buffer_width
                 /\ y >= 0
                 /\ y <= buffer_height)

draw_shaded_row_loop(surface, i, p2_x, y, cur, steps, bitmap_ptr, buffer_width, buffer_height, garbage, depth_test) ==
    IF ~(i <= p2_x) THEN surface
    ELSE row_test(NoteRead(surface, i, y), i, p2_x, y, cur, steps, bitmap_ptr, buffer_width,
                  buffer_height, garbage, depth_test,
                  read_depth_buffer(surface, i, y, garbage))

draw_shaded_row(surface, y, p1, p2, bitmap_ptr, buffer_width, buffer_height, garbage, depth_test) ==
    draw_shaded_row_loop(surface, p1.x, p2.x, y, Attributes(p1),
                         AttributeSteps(Attributes(p1), Attributes(p2), Abs(p2.x - p1.x)),
                         bitmap_ptr, buffer_width, buffer_height, garbage, depth_test)

\* An edge of the triangle being filled: its current x (a double) and
\* attributes, and their increments per scanline.
TriangleEdge(from, to, num_steps) ==
    [x |-> Num(from.x),
     x_step |-> RDiv(Num(to.x - from.x), Num(num_steps)),
     attrs |-> Attributes(from),
     steps |-> AttributeSteps(Attributes(from), Attributes(to), num_steps)]

\* The increments at the end of a scanline.
AdvanceEdge(edge) ==
    [edge EXCEPT !.x = RAdd(edge.x, edge.x_step),
                 !.attrs = AddSteps(edge.attrs, edge.steps)]

\* The pixel_coord built from an edge on scanline i: the double x is
\* converted to the int field x.
EdgeCoord(edge, i) ==
    pixel_coord(Trunc(edge.x), i, edge.attrs.inv_z, edge.attrs.i_div_z,
                edge.attrs.r_div_z, edge.attrs.g_div_z, edge.attrs.b_div_z,
                edge.attrs.tex_x_div_z, edge.attrs.tex_y_div_z)

\* p_1_3.x += 1 before the row of the upper triangle.
WidenedCoord(p) == [p EXCEPT !.x = @ + 1]

\* The surface with a draw_shaded_row call of draw_shaded_triangle noted: the
\* scanline, the two ends passed and x_1_3 and the other interpolants of the
\* edge p1 -> p3 at the call, and the bitmap passed.
NoteRow(surface, i, p_left, p_right, edge_1_3, bitmap_ptr) ==
    [surface EXCEPT !.rows = Append(@, [y |-> i, p1 |-> p_left, p2 |-> p_right,
                                        x_1_3 |-> edge_1_3.x, attrs_1_3 |-> edge_1_3.attrs,
                                        bitmap_ptr |-> bitmap_ptr])]

\* The lower loop without its comparison of x_1_2 with x_1_3: the short edge
\* is always passed as the left end.
RECURSIVE lower_triangle_loop_short_edge_first(_, _, _, _, _, _, _, _, _)
lower_triangle_loop_short_edge_first(surface, i, last, edge_1_2, edge_1_3, bitmap_ptr, buffer_width, buffer_height, garbage) ==
    IF ~(i <= last) THEN [surface |-> surface, edge_1_3 |-> edge_1_3]
    ELSE lower_triangle_loop_short_edge_first(
             draw_shaded_row(NoteRow(surface, i, EdgeCoord(edge_1_2, i), EdgeCoord(edge_1_3, i),
                                     edge_1_3, bitmap_ptr),
                             i, EdgeCoord(edge_1_2, i), EdgeCoord(edge_1_3, i),
                             bitmap_ptr, buffer_width, buffer_height, garbage, TRUE),
             i + 1, last, AdvanceEdge(edge_1_2), AdvanceEdge(edge_1_3), bitmap_ptr,
             buffer_width, buffer_height, garbage)

\* The loop that draws the lower triangle, from scanline i to scanline last.
\* The result is the surface and the edge p1 -> p3 as the loop leaves it.
RECURSIVE lower_triangle_loop(_, _, _, _, _, _, _, _, _)
lower_triangle_loop(surface, i, last, edge_1_2, edge_1_3, bitmap_ptr, buffer_width, buffer_height, garbage) ==
    IF ~(i <= last) THEN [surface |-> surface, edge_1_3 |-> edge_1_3]
    ELSE IF RLe(edge_1_2.x, edge_1_3.x)
    THEN lower_triangle_loop(
             draw_shaded_row(NoteRow(surface, i, EdgeCoord(edge_1_2, i), EdgeCoord(edge_1_3, i),
                                     edge_1_3, bitmap_ptr),
                             i, EdgeCoord(edge_1_2, i), EdgeCoord(edge_1_3, i),
                             bitmap_ptr, buffer_width, buffer_height, garbage, TRUE),
             i + 1, last, AdvanceEdge(edge_1_2), AdvanceEdge(edge_1_3), bitmap_ptr,
             buffer_width, buffer_height, garbage)
    ELSE lower_triangle_loop(
             draw_shaded_row(NoteRow(surface, i, EdgeCoord(edge_1_3, i), EdgeCoord(edge_1_2, i),
                                     edge_1_3, bitmap_ptr),
                             i, EdgeCoord(edge_1_3, i), EdgeCoord(edge_1_2, i),
                             bitmap_ptr, buffer_width, buffer_height, garbage, TRUE),
             i + 1, last, AdvanceEdge(edge_1_2), AdvanceEdge(edge_1_3), bitmap_ptr,
             buffer_width, buffer_height, garbage)

\* The loop that draws the upper triangle.
RECURSIVE upper_triangle_loop(_, _, _, _, _, _, _, _, _)
upper_triangle_loop(surface, i, last, edge_2_3, edge_1_3, bitmap_ptr, buffer_width, buffer_height, garbage) ==
    IF ~(i <= last) THEN surface
    ELSE IF RLe(edge_2_3.x, edge_1_3.x)
    THEN upper_triangle_loop(
             draw_shaded_row(NoteRow(surface, i, EdgeCoord(edge_2_3, i),
                                     WidenedCoord(EdgeCoord(edge_1_3, i)), edge_1_3, bitmap_ptr),
                             i, EdgeCoord(edge_2_3, i),
                             WidenedCoord(EdgeCoord(edge_1_3, i)),
                             bitmap_ptr, buffer_width, buffer_height, garbage, TRUE),
             i + 1, last, AdvanceEdge(edge_2_3), AdvanceEdge(edge_1_3), bitmap_ptr,
             buffer_width, buffer_height, garbage)
    ELSE upper_triangle_loop(
             draw_shaded_row(NoteRow(surface, i, EdgeCoord(edge_1_3, i), EdgeCoord(edge_2_3, i),
                                     edge_1_3, bitmap_ptr),
                             i, EdgeCoord(edge_1_3, i), EdgeCoord(edge_2_3, i),
                             bitmap_ptr, buffer_width, buffer_height, garbage, TRUE),
             i + 1, last, AdvanceEdge(edge_2_3), AdvanceEdge(edge_1_3), bitmap_ptr,
             buffer_width, buffer_height, garbage)

\* One of the three conditional swaps that order the corners by y.
SwapByY(corners, j, k) ==
    IF corners[j].y > corners[k].y
    THEN [corners EXCEPT ![j] = corners[k], ![k] = corners[j]]
    ELSE corners

\* The three swaps: p1 with p2, p2 with p3, p1 with p2.
SortByY(p1, p2, p3) == SwapByY(SwapByY(SwapByY(<<p1, p2, p3>>, 1, 2), 2, 3), 1, 2)

\* The upper triangle, after the lower one.
fill_upper(lower, p2, p3, bitmap_ptr, buffer_width, buffer_height, garbage) ==
    IF Abs(p3.y - p2.y) > 0
    THEN upper_triangle_loop(lower.surface, p2.y, p3.y,
                             TriangleEdge(p2, p3, Abs(p3.y - p2.y)), lower.edge_1_3,
                             bitmap_ptr, buffer_width, buffer_height, garbage)
    ELSE lower.surface

\* The lower triangle: the surface, and the edge p1 -> p3 where it stops.
fill_lower(surface, p1, p2, edge_1_3, bitmap_ptr, buffer_width, buffer_height, garbage) ==
    IF Abs(p2.y - p1.y) > 0
    THEN lower_triangle_loop(surface, p1.y, p2.y, TriangleEdge(p1, p2, Abs(p2.y - p1.y)),
                             edge_1_3, bitmap_ptr, buffer_width, buffer_height, garbage)
    ELSE [surface |-> surface, edge_1_3 |-> edge_1_3]

\* draw_shaded_triangle once its corners are ordered by y.
fill_sorted(surface, p1, p2, p3, bitmap_ptr, buffer_width, buffer_height, garbage) ==
    IF Abs(p3.y - p1.y) = 0 THEN surface
    ELSE fill_upper(fill_lower(surface, p1, p2, TriangleEdge(p1, p3, Abs(p3.y - p1.y)),
                               bitmap_ptr, buffer_width, buffer_height, garbage),
                    p2, p3, bitmap_ptr, buffer_width, buffer_height, garbage)

fill_corners(surface, sorted, bitmap_ptr, buffer_width, buffer_height, garbage) ==
    fill_sorted(surface, sorted[1], sorted[2], sorted[3], bitmap_ptr, buffer_width,
                buffer_height, garbage)

draw_shaded_triangle(surface, in_p1, in_p2, in_p3, bitmap_ptr, buffer_width, buffer_height, garbage) ==
    fill_corners(surface, SortByY(in_p1, in_p2, in_p3), bitmap_ptr, buffer_width,
                 buffer_height, garbage)

\* The pixel_coord rasterise_triangles builds from a vertex.
vertex_coord(point) ==
    pixel_coord(Floor(point.pos[1]), Floor(point.pos[2]), point.inv_z, point.i_div_z,
                point.r_div_z, point.g_div_z, point.b_div_z, point.tex_x_div_z,
                point.tex_y_div_z)

\* The call rasterise_triangles makes for a triangle: the window and the
\* three corners only, no bitmap, and the extent of the window's surface.
rasterise_triangle(surface, curr_triangle, garbage) ==
    draw_shaded_triangle(surface,
                         vertex_coord(curr_triangle.points[1]),
                         vertex_coord(curr_triangle.points[2]),
                         vertex_coord(curr_triangle.points[3]),
                         nullptr, surface.width, surface.height, garbage)

\* rasterise_triangles' loop.
RECURSIVE rasterise_loop(_, _, _, _, _)
rasterise_loop(surface, triangles, active, itr, garbage) ==
    IF itr > Len(active) THEN surface
    ELSE rasterise_loop(rasterise_triangle(surface, triangles[active[itr] + 1], garbage),
                        triangles, active, itr + 1, garbage)

rasterise_triangles(surface, triangles, active, garbage) ==
    rasterise_loop(surface, triangles, active, 1, garbage)

\* ------------------------------------------------------------ the state

VARIABLES
    scene,            \* the Scene render_scene is given: models, lights, camera
    triangles,        \* render_scene's std::vector<Triangle> triangles
    active,           \* render_scene's std::list<int> active_indices
    stage,            \* the last stage of the frame that has run
    clip_log,         \* one entry per triangle visited by the last clip pass
    prev_triangles,   \* triangles as the last stage found it
    prev_active,      \* active_indices as the last stage found it
    itr,              \* clip_triangles' iterator: its position in active_indices
    surface,          \* the render surface draw_shaded_row draws on
    aa_surface,       \* the same calls on a rasteriser without the depth test
    draws,            \* the number of draw_shaded_row calls so far
    run_a,            \* a frame: its triangles and active_indices
    run_b,            \* the same frame with its active list permuted once
    frame_stage,      \* the last stage the two frames have run
    permuted,         \* whether run_b's active list has been permuted
    surface_a,        \* the surface run_a is rasterised on
    surface_b,        \* the surface run_b is rasterised on
    calls,            \* the number of render_scene calls that have returned
    first_surface,    \* the surface as the call before the last one left it
    call,             \* a call that is made on its own: what is called, on what
    result,           \* what the call has returned or thrown
    window            \* the window: its flags and the events pending for it

pipe_vars == <<scene, triangles, active, stage, clip_log, prev_triangles,
               prev_active, itr>>

row_vars == <<surface, aa_surface, draws>>

frame_vars == <<run_a, run_b, frame_stage, permuted, surface_a, surface_b>>

call_vars == <<calls, first_surface, call, result, window>>

vars == <<pipe_vars, row_vars, frame_vars, call_vars>>

\* ------------------------------------------------------------ the scenes

\* A mesh vertex: w = 1 as load_mesh_from_obj sets it, a white colour, the
\* intensity and the divided-by-z fields zero.
MeshPoint(x, y, z) ==
    Point(VecI(x, y, z, 1), Zero, Num(255), Num(255), Num(255), Zero, Zero,
          Zero, Zero, Zero, Zero, Zero, Zero, Zero)

\* Vertices on every side of the near plane z = 1 and of the four screen
\* edges x = -1, x = 1, y = 3/4, y = -3/4 (after projection), and on them.
VertexPool ==
    { MeshPoint(0, 0, 2),      \* projects to (0, 0): inside every bound
      MeshPoint(-4, 1, 2),     \* projects to (-2, 1/2): left of the screen
      MeshPoint(4, -1, 2),     \* projects to (2, -1/2): right of the screen
      MeshPoint(1, 3, 2),      \* projects to (1/2, 3/2): above the screen
      MeshPoint(-1, -3, 2),    \* projects to (-1/2, -3/2): below the screen
      MeshPoint(0, 1, 0),      \* behind the near plane
      MeshPoint(-1, -1, 0),    \* behind the near plane
      MeshPoint(1, 0, 1) }     \* on the near plane and on the right edge

\* The vertices of the strips of more than one triangle: inside the screen,
\* left and right of it, and behind the near plane.
LongStripPool ==
    { MeshPoint(0, 0, 2), MeshPoint(-4, 1, 2), MeshPoint(4, -1, 2), MeshPoint(0, 1, 0) }

StripPool(n) == IF n = 1 THEN VertexPool ELSE LongStripPool

\* The meshes: triangle strips over the pool, triangle k made of the strip's
\* vertices k, k + 1, k + 2.
RECURSIVE StripMesh(_)
StripMesh(strip) ==
    IF Len(strip) < 3 THEN <<>>
    ELSE <<Triangle(strip[1], strip[2], strip[3])>> \o StripMesh(Tail(strip))

Meshes ==
    UNION { { StripMesh(strip) : strip \in [1..(n + 2) -> StripPool(n)] } : n \in 1..MaxTris }

Origin == VecI(0, 0, 0, 0)

Models ==
    { [mesh |-> mesh, position |-> Origin, scale |-> VecI(1, 1, 1, 0),
       rotation |-> <<0, 0, 0, 0>>] : mesh \in Meshes }

Cameras == { [position |-> Origin, rotation |-> <<0, 0, 0, 0>>] }

LightLists == { <<>>, <<[type |-> "AMBIENT", intensity |-> Rat(1, 2), vec |-> Origin]>> }

Scenes ==
    { [models |-> <<m>>, lights |-> l, camera |-> c] :
        m \in Models, l \in LightLists, c \in Cameras }

PipeIdle ==
    /\ triangles = <<>>
    /\ active = <<>>
    /\ stage = "start"
    /\ clip_log = <<>>
    /\ prev_triangles = <<>>
    /\ prev_active = <<>>
    /\ itr = 1

RowIdle ==
    /\ surface = ClearSurface(Width, Height)
    /\ aa_surface = ClearSurface(Width, Height)
    /\ draws = 0

NoRun == [triangles |-> <<>>, active |-> <<>>]

FrameIdle ==
    /\ run_a = NoRun
    /\ run_b = NoRun
    /\ frame_stage = "start"
    /\ permuted = FALSE
    /\ surface_a = ClearSurface(Width, Height)
    /\ surface_b = ClearSurface(Width, Height)

NoCall == [op |-> "none", args |-> <<>>]

Pending == [status |-> "pending", value |-> <<>>]

\* No window has been created.
NoWindow == [impl |-> "none"]

CallIdle ==
    /\ calls = 0
    /\ first_surface = ClearSurface(Width, Height)
    /\ call = NoCall
    /\ result = Pending
    /\ window = NoWindow

Init ==
    /\ scene \in Scenes
    /\ PipeIdle
    /\ RowIdle
    /\ FrameIdle
    /\ CallIdle

\* ----------------------------------------------------------- the actions

\* A stage of render_scene has run: from stage `from` to stage `to`.
RunStage(from, to, new_triangles, new_active, new_log) ==
    /\ stage = from
    /\ stage' = to
    /\ triangles' = new_triangles
    /\ active' = new_active
    /\ clip_log' = new_log
    /\ prev_triangles' = triangles
    /\ prev_active' = active
    /\ UNCHANGED <<scene, itr, row_vars, frame_vars, call_vars>>

\* A stage that yields the vector, the list and, for a clip pass, its log.
RunStageOf(from, to, c, new_log) ==
    RunStage(from, to, c.triangles, c.active, new_log)

RunClip(from, to, c) == RunStage(from, to, c.triangles, c.active, c.log)

Collect ==
    RunStageOf("start", "collected", collect_render_scene(scene.models), <<>>)

\* The helper build_triangles_list_from_models run on the scene's models; no
\* stage of render_scene follows it.
BuildTrianglesList ==
    RunStageOf("start", "built", build_triangles_list_from_models(scene.models), <<>>)

ToCameraSpace ==
    RunStage("collected", "camera",
             convert_triangles_to_camera_space(triangles, active, scene.camera),
             active, <<>>)

CullBackFaces ==
    RunStage("camera", "culled", triangles,
             cull_triangle_back_faces(triangles, active), <<>>)

ComputeLighting ==
    RunStage("culled", "lit",
             compute_triangle_lighting(triangles, active, scene.lights),
             active, <<>>)

ClipNearPlane ==
    RunClip("lit", "near", clip_near_plane(triangles, active))

PerspectiveProject ==
    RunStage("near", "projected",
             perspective_project_triangles(triangles, active), active, <<>>)

\* clip_screen_bounds: the four passes in the order left, right, top, bottom.
ClipLeftBound ==
    RunClip("projected", "left", clip_left_bound(triangles, active))

ClipRightBound ==
    RunClip("left", "right", clip_right_bound(triangles, active))

ClipTopBound ==
    RunClip("right", "top", clip_top_bound(triangles, active))

ClipBottomBound ==
    RunClip("top", "bottom", clip_bottom_bound(triangles, active))

ConvertToPixelSpace ==
    RunStage("bottom", "pixel",
             convert_triangles_to_pixel_space(triangles, active, surface.width,
                                              surface.height),
             active, <<>>)

Next ==
    \/ Collect
    \/ BuildTrianglesList
    \/ ToCameraSpace
    \/ CullBackFaces
    \/ ComputeLighting
    \/ ClipNearPlane
    \/ PerspectiveProject
    \/ ClipLeftBound
    \/ ClipRightBound
    \/ ClipTopBound
    \/ ClipBottomBound
    \/ ConvertToPixelSpace

Spec == Init /\ [][Next]_vars

\* ------------------------------------- draw_shaded_row on a cleared surface

\* The pixel_coord perspective projection and the viewport map give a vertex
\* at depth 1 / inv_z with intensity 1, colour (r, g, b) and texture
\* coordinates (tex_x, tex_y).
ShadedCoord(x, y, inv_z, r, g, b, tex_x, tex_y) ==
    pixel_coord(x, y, inv_z, inv_z, RMul(Num(r), inv_z), RMul(Num(g), inv_z),
                RMul(Num(b), inv_z), RMul(Num(tex_x), inv_z), RMul(Num(tex_y), inv_z))

\* A bitmap of two texels, blue on the left and yellow on the right.
TwoTexels ==
    TrueColourBitmap(2, 1, <<[r |-> 0, g |-> 0, b |-> 255], [r |-> 255, g |-> 255, b |-> 0]>>)

\* What a row can be made of: the 1/z of its two ends, its colour and its
\* bitmap.  Two rows at the same depth in different colours, a row that
\* comes nearer from left to right, and a textured row nearer than the rest.
RowMaterials ==
    { [inv_z_1 |-> Rat(1, 2), inv_z_2 |-> Rat(1, 2), r |-> 255, g |-> 0, b |-> 0,
       bitmap_ptr |-> nullptr],
      [inv_z_1 |-> Rat(1, 2), inv_z_2 |-> Rat(1, 2), r |-> 255, g |-> 255, b |-> 255,
       bitmap_ptr |-> nullptr],
      [inv_z_1 |-> Rat(1, 4), inv_z_2 |-> Rat(3, 4), r |-> 0, g |-> 255, b |-> 0,
       bitmap_ptr |-> nullptr],
      [inv_z_1 |-> Num(1), inv_z_2 |-> Num(1), r |-> 255, g |-> 255, b |-> 255,
       bitmap_ptr |-> TwoTexels] }

\* Scanlines and columns inside the surface, before it and at or beyond its
\* extent.
RowYs == -1..Height

RowXs == -1..Width

\* What a depth read outside the buffer can return: less than every
\* fragment's 1/z, or more.
DepthGarbage == {Zero, Num(2)}

\* The reads outside the buffer that can matter are those of the scanline
\* y = height, one per column.
GarbageReads(y) ==
    IF y = Height THEN [0..(Width - 1) -> DepthGarbage]
    ELSE {[x \in 0..(Width - 1) |-> Zero]}

EmptyScene ==
    [models |-> <<>>, lights |-> <<>>,
     camera |-> [position |-> Origin, rotation |-> <<0, 0, 0, 0>>]]

InitRow ==
    /\ scene = EmptyScene
    /\ PipeIdle
    /\ RowIdle
    /\ FrameIdle
    /\ CallIdle

\* One call of draw_shaded_row, and the same call on the rasteriser that
\* accepts every fragment.
DrawRow(y, p1, p2, bitmap_ptr, garbage) ==
    /\ surface' = draw_shaded_row(surface, y, p1, p2, bitmap_ptr, Width, Height,
                                  garbage, TRUE)
    /\ aa_surface' = draw_shaded_row(aa_surface, y, p1, p2, bitmap_ptr, Width, Height,
                                     garbage, FALSE)

DrawShadedRow ==
    /\ draws < MaxDraws
    /\ \E y \in RowYs, x_1 \in RowXs, x_2 \in RowXs, m \in RowMaterials :
         \E garbage \in GarbageReads(y) :
           DrawRow(y, ShadedCoord(x_1, y, m.inv_z_1, m.r, m.g, m.b, 0, 0),
                   ShadedCoord(x_2, y, m.inv_z_2, m.r, m.g, m.b, 1, 0),
                   m.bitmap_ptr, garbage)
    /\ draws' = draws + 1
    /\ UNCHANGED <<pipe_vars, frame_vars, call_vars>>

NextRow == DrawShadedRow

SpecRow == InitRow /\ [][NextRow]_vars

\* ------------------------------- a frame and the same frame, permuted

\* A mesh vertex with a colour of its own.
ColouredPoint(x, y, z, r, g, b) ==
    Point(VecI(x, y, z, 1), Zero, Num(r), Num(g), Num(b), Zero, Zero,
          Zero, Zero, Zero, Zero, Zero, Zero, Zero)

\* Triangles that face the camera: two that cover the same part of the
\* screen at the same depth in different colours, one that crosses the left
\* edge of the screen and one that crosses the near plane.
RedTriangle ==
    Triangle(ColouredPoint(-1, -1, 2, 255, 0, 0), ColouredPoint(-1, 1, 2, 255, 0, 0),
             ColouredPoint(1, -1, 2, 255, 0, 0))

WhiteTriangle ==
    Triangle(ColouredPoint(-1, -1, 2, 255, 255, 255), ColouredPoint(-1, 1, 2, 255, 255, 255),
             ColouredPoint(1, -1, 2, 255, 255, 255))

LeftCrossingTriangle ==
    Triangle(ColouredPoint(-4, -1, 2, 0, 255, 0), ColouredPoint(0, 1, 2, 0, 255, 0),
             ColouredPoint(1, -1, 2, 0, 255, 0))

NearCrossingTriangle ==
    Triangle(ColouredPoint(-1, -1, 2, 0, 0, 255), ColouredPoint(0, 1, 0, 0, 0, 255),
             ColouredPoint(1, -1, 2, 0, 0, 255))

FrameTriangles ==
    {RedTriangle, WhiteTriangle, LeftCrossingTriangle, NearCrossingTriangle}

FrameScenes ==
    { [models |-> <<[mesh |-> <<t1, t2>>, position |-> Origin,
                     scale |-> VecI(1, 1, 1, 0), rotation |-> <<0, 0, 0, 0>>]>>,
       lights |-> <<[type |-> "AMBIENT", intensity |-> Num(1), vec |-> Origin]>>,
       camera |-> [position |-> Origin, rotation |-> <<0, 0, 0, 0>>]] :
        <<t1, t2>> \in { pair \in FrameTriangles \X FrameTriangles : pair[1] # pair[2] } }

\* The sequence s with its entries at positions j and k exchanged.
Exchange(s, j, k) == [s EXCEPT ![j] = s[k], ![k] = s[j]]

\* The orderings of s that exchange two of its entries.
Reorderings(s) ==
    { Exchange(s, j, k) : <<j, k>> \in { jk \in (1..Len(s)) \X (1..Len(s)) : jk[1] < jk[2] } }

\* The stages of render_scene after the collect step, in order.
FrameStages ==
    <<"collected", "camera", "culled", "lit", "near", "projected", "left", "right",
      "top", "bottom", "pixel">>

StageAfter(s) ==
    FrameStages[1 + CHOOSE k \in 1..(Len(FrameStages) - 1) : FrameStages[k] = s]

Geometry(c) == [triangles |-> c.triangles, active |-> c.active]

\* What the stage that leads to `to` makes of a frame.
run_stage(to, run, frame_scene) ==
    CASE to = "camera" ->
            [run EXCEPT !.triangles = convert_triangles_to_camera_space(
                                          run.triangles, run.active, frame_scene.camera)]
      [] to = "culled" ->
            [run EXCEPT !.active = cull_triangle_back_faces(run.triangles, run.active)]
      [] to = "lit" ->
            [run EXCEPT !.triangles = compute_triangle_lighting(
                                          run.triangles, run.active, frame_scene.lights)]
      [] to = "near" -> Geometry(clip_near_plane(run.triangles, run.active))
      [] to = "projected" ->
            [run EXCEPT !.triangles = perspective_project_triangles(
                                          run.triangles, run.active)]
      [] to = "left" -> Geometry(clip_left_bound(run.triangles, run.active))
      [] to = "right" -> Geometry(clip_right_bound(run.triangles, run.active))
      [] to = "top" -> Geometry(clip_top_bound(run.triangles, run.active))
      [] to = "bottom" -> Geometry(clip_bottom_bound(run.triangles, run.active))
      [] to = "pixel" ->
            [run EXCEPT !.triangles = convert_triangles_to_pixel_space(
                                          run.triangles, run.active, Width, Height)]

InitFrame ==
    /\ scene \in FrameScenes
    /\ PipeIdle
    /\ RowIdle
    /\ FrameIdle
    /\ CallIdle

\* The collect step of render_scene, the same for the two frames.
FrameCollect ==
    /\ frame_stage = "start"
    /\ run_a' = Geometry(collect_render_scene(scene.models))
    /\ run_b' = Geometry(collect_render_scene(scene.models))
    /\ frame_stage' = "collected"
    /\ UNCHANGED <<pipe_vars, row_vars, call_vars, permuted, surface_a, surface_b>>

\* Between two stages, the second frame's active list is put in another
\* order.
FramePermute ==
    /\ frame_stage \in { FrameStages[k] : k \in 1..Len(FrameStages) }
    /\ ~permuted
    /\ \E p \in Reorderings(run_b.active) :
           run_b' = [run_b EXCEPT !.active = p]
    /\ permuted' = TRUE
    /\ UNCHANGED <<pipe_vars, row_vars, call_vars, run_a, frame_stage, surface_a, surface_b>>

\* The next geometry stage of render_scene, on the two frames.
FrameStage ==
    /\ frame_stage \in { FrameStages[k] : k \in 1..(Len(FrameStages) - 1) }
    /\ run_a' = run_stage(StageAfter(frame_stage), run_a, scene)
    /\ run_b' = run_stage(StageAfter(frame_stage), run_b, scene)
    /\ frame_stage' = StageAfter(frame_stage)
    /\ UNCHANGED <<pipe_vars, row_vars, call_vars, permuted, surface_a, surface_b>>

\* rasterise_triangles, on the two frames.
FrameRasterise ==
    /\ frame_stage = "pixel"
    /\ \E garbage \in [0..(Width - 1) -> DepthGarbage] :
           /\ surface_a' = rasterise_triangles(surface_a, run_a.triangles, run_a.active,
                                               garbage)
           /\ surface_b' = rasterise_triangles(surface_b, run_b.triangles, run_b.active,
                                               garbage)
    /\ frame_stage' = "rasterised"
    /\ UNCHANGED <<pipe_vars, row_vars, call_vars, run_a, run_b, permuted>>

NextFrame ==
    \/ FrameCollect
    \/ FramePermute
    \/ FrameStage
    \/ FrameRasterise

SpecFrame == InitFrame /\ [][NextFrame]_vars

\* ------------------------------------- render_scene, call after call

\* The triangle of scenario E1, white, and the same triangle with its
\* winding reversed.
ScenarioE1 == Triangle(MeshPoint(-1, 0, 2), MeshPoint(1, 0, 2), MeshPoint(0, 1, 2))

ScenarioE1Reversed == Triangle(MeshPoint(-1, 0, 2), MeshPoint(0, 1, 2), MeshPoint(1, 0, 2))

\* One model of one triangle: those of E1, a red triangle over a corner of
\* the screen and a triangle that crosses the near plane; at the origin and
\* unscaled, or twice as wide and high and one unit farther away.
SceneMeshes ==
    { <<ScenarioE1>>, <<ScenarioE1Reversed>>, <<RedTriangle>>, <<NearCrossingTriangle>> }

SceneModels ==
    { [mesh |-> mesh, position |-> position, scale |-> scale, rotation |-> <<0, 0, 0, 0>>] :
        mesh \in SceneMeshes,
        <<position, scale>> \in { <<Origin, VecI(1, 1, 1, 0)>>,
                                   <<VecI(0, 0, 1, 0), VecI(2, 2, 1, 0)>> } }

RenderedScenes ==
    { [models |-> <<m>>, lights |-> l, camera |-> c] :
        m \in SceneModels, l \in LightLists, c \in Cameras }

InitScene ==
    /\ scene \in RenderedScenes
    /\ PipeIdle
    /\ surface = ClearSurface(SceneWidth, SceneHeight)
    /\ aa_surface = ClearSurface(Width, Height)
    /\ draws = 0
    /\ FrameIdle
    /\ calls = 0
    /\ first_surface = ClearSurface(SceneWidth, SceneHeight)
    /\ call = NoCall
    /\ result = Pending
    /\ window = NoWindow

\* A triangle with the vertex intensities of another.
WithIntensitiesOf(triangle, lit) ==
    Triangle([triangle.points[1] EXCEPT !.i = lit.points[1].i],
             [triangle.points[2] EXCEPT !.i = lit.points[2].i],
             [triangle.points[3] EXCEPT !.i = lit.points[3].i])

\* A render_scene whose vector holds the meshes' own triangles: what the
\* lighting stage adds is left in the first mesh.
scene_with_lit_triangles(given, lit_triangles) ==
    IF given.models = <<>> \/ lit_triangles = <<>> THEN given
    ELSE [given EXCEPT !.models[1].mesh[1] = WithIntensitiesOf(@, lit_triangles[1])]

\* The scene after a call of render_scene: the scene is a reference to
\* const, the collect loop takes the models and the triangles of their
\* meshes as const and transform_triangle returns a copy, so the stages work
\* on the call's own vector and store nothing in the scene.
scene_after_render_scene(given, lit_triangles) == given

\* Reads of the depth buffer outside the surface: less than every
\* fragment's 1/z in every column, or more.
SceneGarbage ==
    { [x \in 0..(SceneWidth - 1) |-> Zero], [x \in 0..(SceneWidth - 1) |-> Num(2)] }

\* rasterise_triangles, the last statement of render_scene, and the return.
Rasterise ==
    /\ stage = "pixel"
    /\ \E garbage \in SceneGarbage :
           surface' = rasterise_triangles(surface, triangles, active, garbage)
    /\ scene' = scene_after_render_scene(scene, triangles)
    /\ stage' = "drawn"
    /\ calls' = calls + 1
    /\ UNCHANGED <<triangles, active, clip_log, prev_triangles, prev_active, itr,
                   aa_surface, draws, frame_vars, first_surface, call, result, window>>

\* The surface is cleared and render_scene is called again on the scene.
RenderSceneAgain ==
    /\ stage = "drawn"
    /\ calls < MaxCalls
    /\ first_surface' = surface
    /\ surface' = ClearSurface(surface.width, surface.height)
    /\ stage' = "start"
    /\ triangles' = <<>>
    /\ active' = <<>>
    /\ clip_log' = <<>>
    /\ prev_triangles' = <<>>
    /\ prev_active' = <<>>
    /\ UNCHANGED <<scene, itr, aa_surface, draws, frame_vars, calls, call, result, window>>

NextScene ==
    \/ Collect
    \/ ToCameraSpace
    \/ CullBackFaces
    \/ ComputeLighting
    \/ ClipNearPlane
    \/ PerspectiveProject
    \/ ClipLeftBound
    \/ ClipRightBound
    \/ ClipTopBound
    \/ ClipBottomBound
    \/ ConvertToPixelSpace
    \/ Rasterise
    \/ RenderSceneAgain

SpecScene == InitScene /\ [][NextScene]_vars

\* ------------------------------------- render_scene on a textured mesh

\* Resources::attach_texture: the bitmap pointer of every triangle of the mesh
\* is set to the bitmap.  The triangles of a loaded mesh have the member
\* (load_mesh_from_obj builds them as Triangle{{p1, p2, p3}, nullptr}).
attach_texture(mesh, bitmap) ==
    [k \in DOMAIN mesh |-> [points |-> mesh[k].points, bitmap_ptr |-> bitmap]]

TexturedScenes ==
    { [s EXCEPT !.models[1].mesh = attach_texture(@, TwoTexels)] : s \in RenderedScenes }

InitTextured ==
    /\ scene \in TexturedScenes
    /\ PipeIdle
    /\ surface = ClearSurface(SceneWidth, SceneHeight)
    /\ aa_surface = ClearSurface(Width, Height)
    /\ draws = 0
    /\ FrameIdle
    /\ calls = 0
    /\ first_surface = ClearSurface(SceneWidth, SceneHeight)
    /\ call = NoCall
    /\ result = Pending
    /\ window = NoWindow

SpecTextured == InitTextured /\ [][NextScene]_vars

\* ------------------------------------------------ load_mesh_from_obj

\* A std::stringstream over a line: its characters, the position of the next
\* one and its fail state.
Stream(chars) == [chars |-> chars, pos |-> 1, fail |-> FALSE]

AtEnd(s) == s.pos > Len(s.chars)

Failed(s) == [s EXCEPT !.fail = TRUE]

Digits == {"0", "1", "2", "3", "4", "5", "6", "7", "8", "9"}

DigitValue(c) ==
    CASE c = "0" -> 0 [] c = "1" -> 1 [] c = "2" -> 2 [] c = "3" -> 3 [] c = "4" -> 4
      [] c = "5" -> 5 [] c = "6" -> 6 [] c = "7" -> 7 [] c = "8" -> 8 [] c = "9" -> 9

\* line >> std::ws
RECURSIVE skip_ws(_)
skip_ws(s) ==
    IF ~AtEnd(s) /\ s.chars[s.pos] = " " THEN skip_ws([s EXCEPT !.pos = @ + 1]) ELSE s

\* The digits of a number from the position of the stream on.
RECURSIVE read_digits(_, _)
read_digits(s, value) ==
    IF ~AtEnd(s) /\ s.chars[s.pos] \in Digits
    THEN read_digits([s EXCEPT !.pos = @ + 1], 10 * value + DigitValue(s.chars[s.pos]))
    ELSE [stream |-> s, value |-> value]

read_number_at(s) ==
    IF AtEnd(s) \/ s.chars[s.pos] \notin Digits THEN [stream |-> Failed(s), value |-> 0]
    ELSE read_digits(s, 0)

\* line >> out[k] and line_stream >> x: the extraction of a number, which
\* skips the white space before it and fails where no number starts.
read_number(s) ==
    IF s.fail THEN [stream |-> s, value |-> 0] ELSE read_number_at(skip_ws(s))

RECURSIVE read_word_at(_, _)
read_word_at(s, word) ==
    IF ~AtEnd(s) /\ s.chars[s.pos] # " "
    THEN read_word_at([s EXCEPT !.pos = @ + 1], Append(word, s.chars[s.pos]))
    ELSE [stream |-> (IF word = <<>> THEN Failed(s) ELSE s), value |-> word]

\* line_stream >> mnemonic
read_word(s) == read_word_at(skip_ws(s), <<>>)

\* line.get(c)
stream_get(s) ==
    IF s.fail \/ AtEnd(s) THEN [stream |-> Failed(s), c |-> "EOF", ok |-> FALSE]
    ELSE [stream |-> [s EXCEPT !.pos = @ + 1], c |-> s.chars[s.pos], ok |-> TRUE]

\* line.unget()
stream_unget(s) == [s EXCEPT !.pos = @ - 1]

\* line.peek()
stream_peek(s) == IF s.fail \/ AtEnd(s) THEN "EOF" ELSE s.chars[s.pos]

\* What parse_face_point_triplet returns and leaves: the format, out[0..2]
\* (0 where it stores nothing) and the stream.
Triplet(s, format, p, t, n) == [stream |-> s, format |-> format, out |-> <<p, t, n>>]

triplet_ptn(r, p, t) ==
    IF r.stream.fail THEN Triplet(r.stream, "ERROR", p, t, 0)
    ELSE Triplet(r.stream, "PTN", p, t, r.value)

triplet_after_t(g, p, t) ==
    IF ~g.ok THEN Triplet(g.stream, "PT", p, t, 0)
    ELSE IF g.c # "/" THEN Triplet(stream_unget(g.stream), "PT", p, t, 0)
    ELSE triplet_ptn(read_number(skip_ws(g.stream)), p, t)

triplet_t(r, p) ==
    IF r.stream.fail THEN Triplet(r.stream, "ERROR", p, 0, 0)
    ELSE triplet_after_t(stream_get(skip_ws(r.stream)), p, r.value)

triplet_pn(r, p) ==
    IF r.stream.fail THEN Triplet(r.stream, "ERROR", p, 0, 0)
    ELSE Triplet(r.stream, "PN", p, 0, r.value)

triplet_after_slash(s, p) ==
    IF stream_peek(s) = "EOF" THEN Triplet(s, "ERROR", p, 0, 0)
    ELSE IF stream_peek(s) = "/" THEN triplet_pn(read_number(skip_ws(stream_get(s).stream)), p)
    ELSE triplet_t(read_number(s), p)

triplet_after_p(g, p) ==
    IF ~g.ok THEN Triplet(g.stream, "P", p, 0, 0)
    ELSE IF g.c # "/" THEN Triplet(stream_unget(g.stream), "P", p, 0, 0)
    ELSE triplet_after_slash(skip_ws(g.stream), p)

triplet_p(r) ==
    IF r.stream.fail THEN Triplet(r.stream, "ERROR", 0, 0, 0)
    ELSE triplet_after_p(stream_get(skip_ws(r.stream)), r.value)

parse_face_point_triplet(line) == triplet_p(read_number(line))

\* What an element read past the end of a std::vector holds.
StrayVertex == VecI(7, 7, 7, 7)

\* vertices[index] with the unchecked operator[].
ElementAt(elements, index) ==
    IF index \in 0..(Len(elements) - 1) THEN elements[index + 1] ELSE StrayVertex

UsesTexture(format) == format \in {"PT", "PTN"}

\* The Graphics::Point of a face vertex: value-initialised, then its
\* position, a white colour and, for the forms with a t, its texture
\* coordinates.
face_point(m, v) ==
    Point(ElementAt(m.vertices, v.out[1] - 1), Zero, Num(255), Num(255), Num(255),
          IF UsesTexture(v.format) THEN ElementAt(m.texture_coords, v.out[2] - 1)[1] ELSE Zero,
          IF UsesTexture(v.format) THEN ElementAt(m.texture_coords, v.out[2] - 1)[2] ELSE Zero,
          Zero, Zero, Zero, Zero, Zero, Zero, Zero)

\* Whether the face reads a vector outside its elements.
face_in_range(m, v) ==
    /\ (v.out[1] - 1) \in 0..(Len(m.vertices) - 1)
    /\ UsesTexture(v.format) => (v.out[2] - 1) \in 0..(Len(m.texture_coords) - 1)

Fail(m) == [m EXCEPT !.failed = TRUE]

\* A loader that skips the line it cannot parse and goes on.
face_line_skipping_errors(m, v1, v2, v3) ==
    IF v1.format = "ERROR" \/ v2.format = "ERROR" \/ v3.format = "ERROR" THEN m
    ELSE IF v1.format # v2.format \/ v2.format # v3.format THEN m
    ELSE [m EXCEPT !.triangles = Append(@, Triangle(face_point(m, v1), face_point(m, v2),
                                                     face_point(m, v3))),
                   !.in_range = @ /\ face_in_range(m, v1) /\ face_in_range(m, v2)
                                   /\ face_in_range(m, v3)]

\* The f line, its three triplets parsed.
face_line(m, v1, v2, v3) ==
    IF v1.format = "ERROR" \/ v2.format = "ERROR" \/ v3.format = "ERROR" THEN Fail(m)
    ELSE IF v1.format # v2.format \/ v2.format # v3.format THEN Fail(m)
    ELSE [m EXCEPT !.triangles = Append(@, Triangle(face_point(m, v1), face_point(m, v2),
                                                     face_point(m, v3))),
                   !.in_range = @ /\ face_in_range(m, v1) /\ face_in_range(m, v2)
                                   /\ face_in_range(m, v3)]

face_third(m, v1, v2) == face_line(m, v1, v2, parse_face_point_triplet(v2.stream))

face_second(m, v1) == face_third(m, v1, parse_face_point_triplet(v1.stream))

\* The v and vn lines: three doubles.
three_numbers(m, x, y, z, field, w) ==
    IF z.stream.fail THEN Fail(m)
    ELSE [m EXCEPT ![field] = Append(@, Vec(Num(x.value), Num(y.value), Num(z.value), w))]

three_from(m, x, y, field) == three_numbers(m, x, y, read_number(y.stream), field, One)

three_after(m, x, field) == three_from(m, x, read_number(x.stream), field)

\* The vt line: two doubles.
two_numbers(m, x, y) ==
    IF y.stream.fail THEN Fail(m)
    ELSE [m EXCEPT !.texture_coords = Append(@, Vec(Num(x.value), Num(y.value), One, One))]

two_after(m, x) == two_numbers(m, x, read_number(x.stream))

\* One line of the file, its mnemonic read.
obj_line(m, mnemonic) ==
    IF mnemonic.stream.fail THEN m
    ELSE CASE mnemonic.value = <<"v">> -> three_after(m, read_number(mnemonic.stream), "vertices")
           [] mnemonic.value = <<"v", "t">> -> two_after(m, read_number(mnemonic.stream))
           [] mnemonic.value = <<"v", "n">> -> three_after(m, read_number(mnemonic.stream), "normals")
           [] mnemonic.value = <<"f">> -> face_second(m, parse_face_point_triplet(mnemonic.stream))
           [] OTHER -> m

\* The while loop over the lines, left at the first failure.
RECURSIVE obj_lines(_, _, _)
obj_lines(m, lines, k) ==
    IF k > Len(lines) \/ m.failed THEN m
    ELSE obj_lines(obj_line(m, read_word(Stream(lines[k]))), lines, k + 1)

NullMesh == [status |-> "nullptr", value |-> <<>>]

Crashed == [status |-> "crashed", value |-> <<>>]

MeshOf(m) == [status |-> "mesh", value |-> m.triangles]

\* load_mesh_from_obj on a file that opens, given as its lines: the mesh or
\* nullptr, and whether every index was inside its vector.
load_mesh_from_obj(lines) ==
    obj_lines([vertices |-> <<>>, texture_coords |-> <<>>, normals |-> <<>>,
               triangles |-> <<>>, failed |-> FALSE, in_range |-> TRUE], lines, 1)

\* What the call can do.  A read outside a vector is undefined: the call
\* returns the mesh with whatever was read, or does not return.
load_outcomes(m) ==
    IF m.failed THEN {NullMesh}
    ELSE IF m.in_range THEN {MeshOf(m)}
    ELSE {MeshOf(m), Crashed}

\* The tokens of the f lines: the four forms, and tokens that are of none.
FaceTokens ==
    { <<"1">>, <<"2">>, <<"1", "/", "1">>, <<"1", "/", "/", "1">>,
      <<"1", "/", "1", "/", "1">>, <<"x">>, <<"1", "/">>, <<"1", "x">> }

FaceLine(t1, t2, t3) == <<"f", " ">> \o t1 \o <<" ">> \o t2 \o <<" ">> \o t3

FaceLines == { FaceLine(t1, t2, t3) : t1 \in FaceTokens, t2 \in FaceTokens, t3 \in FaceTokens }

\* A face that parses, a face with a token that does not, a face of mixed
\* forms, a vertex that parses, a vertex that does not, and a comment.
OtherLines ==
    { FaceLine(<<"2">>, <<"1">>, <<"2">>), FaceLine(<<"1">>, <<"x">>, <<"2">>),
      FaceLine(<<"1">>, <<"1", "/", "1">>, <<"2">>),
      <<"v", " ", "3", " ", "0", " ", "2">>, <<"v", " ", "0", " ", "x">>, <<"#", " ", "f">> }

\* The lines that come first: none, two vertices, or two vertices and a
\* texture coordinate.
Headers ==
    { <<>>,
      << <<"v", " ", "0", " ", "0", " ", "2">>, <<"v", " ", "1", " ", "0", " ", "2">> >>,
      << <<"v", " ", "0", " ", "0", " ", "2">>, <<"v", " ", "1", " ", "0", " ", "2">>,
         <<"v", "t", " ", "0", " ", "1">> >> }

ObjFiles ==
    { header \o <<line>> : header \in Headers, line \in FaceLines \cup OtherLines }
        \cup { header \o <<line, other>> : header \in Headers, line \in FaceLines, other \in OtherLines }
        \cup { header \o <<other, line>> : header \in Headers, line \in FaceLines, other \in OtherLines }

InitLoad ==
    /\ scene = EmptyScene
    /\ PipeIdle
    /\ RowIdle
    /\ FrameIdle
    /\ calls = 0
    /\ first_surface = ClearSurface(Width, Height)
    /\ call \in { [op |-> "load_mesh_from_obj", args |-> lines] : lines \in ObjFiles }
    /\ result = Pending
    /\ window = NoWindow

LoadMesh ==
    /\ call.op = "load_mesh_from_obj"
    /\ result = Pending
    /\ result' \in load_outcomes(load_mesh_from_obj(call.args))
    /\ UNCHANGED <<pipe_vars, row_vars, frame_vars, calls, first_surface, call, window>>

NextLoad == LoadMesh

SpecLoad == InitLoad /\ [][NextLoad]_vars

\* ------------------------------------------------------- window events

\* The atom of the WM_DELETE_WINDOW protocol, which the constructor looks up.
window_manager_delete_window_id == "WM_DELETE_WINDOW"

XEvent(type, data) == [type |-> type, data |-> data]

\* The events the X server can queue for the window: the two the event mask
\* selects, and client messages, the window manager's and another client's.
XEvents ==
    { XEvent("Expose", "none"), XEvent("ButtonPress", "none"),
      XEvent("ClientMessage", window_manager_delete_window_id),
      XEvent("ClientMessage", "WM_TAKE_FOCUS") }

\* A window as its constructor leaves it.  X11Window keeps should_close,
\* Window_x11 keeps open and destroys its X window when it is closed.
NewWindow(impl) ==
    [impl |-> impl, should_close |-> FALSE, open |-> TRUE, destroyed |-> FALSE, pending |-> <<>>]

\* X11Window::close_window and Window_x11::close_window
close_window(w) ==
    IF w.impl = "X11Window" THEN [w EXCEPT !.should_close = TRUE]
    ELSE [w EXCEPT !.open = FALSE, !.destroyed = TRUE]

\* X11Window::is_open
is_open(w) == ~w.should_close

\* Window_x11::is_closed
is_closed(w) == ~w.open

Multiplexed(w, frame_should_continue) == [window |-> w, continue |-> frame_should_continue]

\* A multiplex_event that opens the window again when it is exposed.
multiplex_event_reopening(w, event) ==
    IF event.type = "ClientMessage" /\ event.data = window_manager_delete_window_id
    THEN Multiplexed(close_window(w), FALSE)
    ELSE IF event.type = "Expose"
    THEN Multiplexed([w EXCEPT !.should_close = FALSE, !.open = TRUE], TRUE)
    ELSE Multiplexed(w, TRUE)

\* multiplex_event: the switch on the type of the event.  X11Window sets
\* should_close itself, Window_x11 calls close_window.
multiplex_event(w, event) ==
    IF event.type = "ClientMessage" /\ event.data = window_manager_delete_window_id
    THEN Multiplexed(close_window(w), FALSE)
    ELSE Multiplexed(w, TRUE)

\* The loop of handle_events: XNextEvent takes the next pending event, and
\* multiplex_event is called for it while frame_continue is true.
RECURSIVE handle_events_loop(_)
handle_events_loop(m) ==
    IF m.window.pending = <<>> THEN m
    ELSE IF m.continue
    THEN handle_events_loop(multiplex_event([m.window EXCEPT !.pending = Tail(@)],
                                            Head(m.window.pending)))
    ELSE handle_events_loop(Multiplexed([m.window EXCEPT !.pending = Tail(@)], FALSE))

handle_events(w) == handle_events_loop(Multiplexed(w, TRUE))

Returned(value) == [status |-> "returned", value |-> value]

\* What a call of a void function leaves.
Done == [status |-> "done", value |-> <<>>]

InitWindow ==
    /\ scene = EmptyScene
    /\ PipeIdle
    /\ RowIdle
    /\ FrameIdle
    /\ calls = 0
    /\ first_surface = ClearSurface(Width, Height)
    /\ call = NoCall
    /\ result = Pending
    /\ window \in { NewWindow("X11Window"), NewWindow("Window_x11") }

\* The X server queues an event for the window.
EventArrives ==
    /\ Len(window.pending) < MaxPending
    /\ \E event \in XEvents : window' = [window EXCEPT !.pending = Append(@, event)]
    /\ UNCHANGED <<pipe_vars, row_vars, frame_vars, calls, first_surface, call, result>>

HandleEvents ==
    /\ window' = handle_events(window).window
    /\ call' = [op |-> "handle_events", args |-> window.pending]
    /\ result' = Returned(handle_events(window).continue)
    /\ UNCHANGED <<pipe_vars, row_vars, frame_vars, calls, first_surface>>

CloseWindow ==
    /\ window' = close_window(window)
    /\ call' = [op |-> "close_window", args |-> <<>>]
    /\ result' = Done
    /\ UNCHANGED <<pipe_vars, row_vars, frame_vars, calls, first_surface>>

\* is_open is asked of an X11Window, is_closed of a Window_x11.
IsOpen ==
    /\ call' = [op |-> (IF window.impl = "X11Window" THEN "is_open" ELSE "is_closed"), args |-> <<>>]
    /\ result' = Returned(IF window.impl = "X11Window" THEN is_open(window) ELSE is_closed(window))
    /\ UNCHANGED <<pipe_vars, row_vars, frame_vars, calls, first_surface, window>>

NextWindow == EventArrives \/ HandleEvents \/ CloseWindow \/ IsOpen

SpecWindow == InitWindow /\ [][NextWindow]_vars

\* --------------------------------------- draw_shaded_triangle on its own

\* A corner at the pixel (x, y), white and fully lit, at a depth that grows
\* with x and y, so that the three corners differ in every interpolant.
Corner(x, y) == ShadedCoord(x, y, Rat(1, 1 + x + y), 255, 255, 255, x, y)

Corners == { Corner(x, y) : x \in 0..MaxCorner, y \in 0..MaxCorner }

InitTriangle ==
    /\ scene = EmptyScene
    /\ PipeIdle
    /\ surface = ClearSurface(SceneWidth, SceneHeight)
    /\ aa_surface = ClearSurface(Width, Height)
    /\ draws = 0
    /\ FrameIdle
    /\ calls = 0
    /\ first_surface = ClearSurface(Width, Height)
    /\ call \in { [op |-> "draw_shaded_triangle", args |-> <<p1, p2, p3>>] :
                     p1 \in Corners, p2 \in Corners, p3 \in Corners }
    /\ result = Pending
    /\ window = NoWindow

DrawShadedTriangle ==
    /\ call.op = "draw_shaded_triangle"
    /\ result = Pending
    /\ result' = Done
    /\ \E garbage \in SceneGarbage :
           surface' = draw_shaded_triangle(surface, call.args[1], call.args[2], call.args[3],
                                           nullptr, surface.width, surface.height, garbage)
    /\ UNCHANGED <<scene, triangles, active, stage, clip_log, prev_triangles, prev_active, itr,
                   aa_surface, draws, frame_vars, calls, first_surface, call, window>>

NextTriangle == DrawShadedTriangle

SpecTriangle == InitTriangle /\ [][NextTriangle]_vars

\* ------------------------------------------------------------ draw_line

\* The for loop of draw_line_low: the draw_pixel calls it makes, in order.
RECURSIVE draw_line_low_loop(_, _, _, _, _, _, _, _)
draw_line_low_loop(x, y, diff, dx, dy, y_inc, x_end, pixels) ==
    IF x > x_end THEN pixels
    ELSE IF diff > 0
    THEN draw_line_low_loop(x + 1, y + y_inc, diff + 2 * (dy - dx), dx, dy, y_inc, x_end,
                            Append(pixels, <<x, y>>))
    ELSE draw_line_low_loop(x + 1, y, diff + 2 * dy, dx, dy, y_inc, x_end,
                            Append(pixels, <<x, y>>))

\* draw_line_low with dy made positive and y_inc its sign.
draw_line_low_from(p1, p2, dx, dy, y_inc) ==
    draw_line_low_loop(p1.x, p1.y, 2 * dy - dx, dx, dy, y_inc, p2.x, <<>>)

draw_line_low(p1, p2) ==
    IF p2.y - p1.y < 0 THEN draw_line_low_from(p1, p2, p2.x - p1.x, -(p2.y - p1.y), -1)
    ELSE draw_line_low_from(p1, p2, p2.x - p1.x, p2.y - p1.y, 1)

\* The for loop of draw_line_high.
RECURSIVE draw_line_high_loop(_, _, _, _, _, _, _, _)
draw_line_high_loop(x, y, diff, dx, dy, x_inc, y_end, pixels) ==
    IF y > y_end THEN pixels
    ELSE IF diff > 0
    THEN draw_line_high_loop(x + x_inc, y + 1, diff + 2 * (dx - dy), dx, dy, x_inc, y_end,
                             Append(pixels, <<x, y>>))
    ELSE draw_line_high_loop(x, y + 1, diff + 2 * dx, dx, dy, x_inc, y_end,
                             Append(pixels, <<x, y>>))

draw_line_high_from(p1, p2, dx, dy, x_inc) ==
    draw_line_high_loop(p1.x, p1.y, 2 * dx - dy, dx, dy, x_inc, p2.y, <<>>)

draw_line_high(p1, p2) ==
    IF p2.x - p1.x < 0 THEN draw_line_high_from(p1, p2, -(p2.x - p1.x), p2.y - p1.y, -1)
    ELSE draw_line_high_from(p1, p2, p2.x - p1.x, p2.y - p1.y, 1)

IntAbs(n) == IF n < 0 THEN -n ELSE n

\* A draw_line that never exchanges its end points.
draw_line_as_given(p1, p2) ==
    IF IntAbs(p2.y - p1.y) < IntAbs(p2.x - p1.x) THEN draw_line_low(p1, p2)
    ELSE draw_line_high(p1, p2)

\* draw_line: the draw_pixel calls it makes, in order.
draw_line(p1, p2) ==
    IF IntAbs(p2.y - p1.y) < IntAbs(p2.x - p1.x)
    THEN (IF p1.x > p2.x THEN draw_line_low(p2, p1) ELSE draw_line_low(p1, p2))
    ELSE (IF p1.y > p2.y THEN draw_line_high(p2, p1) ELSE draw_line_high(p1, p2))

\* The surface after the draw_pixel calls.
RECURSIVE draw_pixels(_, _, _)
draw_pixels(target, pixels, k) ==
    IF k > Len(pixels) THEN target
    ELSE draw_pixels(draw_pixel(target, pixels[k][1], pixels[k][2], 255, 255, 255), pixels, k + 1)

LineEnds == { [x |-> x, y |-> y] : x \in 0..MaxLineCoord, y \in 0..MaxLineCoord }

InitLine ==
    /\ scene = EmptyScene
    /\ PipeIdle
    /\ surface = ClearSurface(SceneWidth, SceneHeight)
    /\ aa_surface = ClearSurface(Width, Height)
    /\ draws = 0
    /\ FrameIdle
    /\ calls = 0
    /\ first_surface = ClearSurface(Width, Height)
    /\ call \in { [op |-> "draw_line", args |-> <<p1, p2>>] : p1 \in LineEnds, p2 \in LineEnds }
    /\ result = Pending
    /\ window = NoWindow

DrawLine ==
    /\ call.op = "draw_line"
    /\ result = Pending
    /\ result' = Returned(draw_line(call.args[1], call.args[2]))
    /\ surface' = draw_pixels(surface, draw_line(call.args[1], call.args[2]), 1)
    /\ UNCHANGED <<scene, triangles, active, stage, clip_log, prev_triangles, prev_active, itr,
                   aa_surface, draws, frame_vars, calls, first_surface, call, window>>

NextLine == DrawLine

SpecLine == InitLine /\ [][NextLine]_vars

\* ------------------------------------------- a textured fragment on its own

MaxTexels == 3

\* A bitmap whose texel at index k (from 0) has the red byte k + 1.
NumberedBitmap(width, height) ==
    TrueColourBitmap(width, height,
                     [k \in 1..(width * height) |-> [r |-> k, g |-> 0, b |-> 0]])

Bitmaps == { NumberedBitmap(w, h) : w \in 1..MaxTexels, h \in 1..MaxTexels }

\* Texture coordinates in quarters, from -1 to 2.
TexCoords == { Rat(n, 4) : n \in (-4)..8 }

\* A white fragment of intensity 1 at pixel (0, 0) with the texture
\* coordinates (tex_x, tex_y) at depth 1 / inv_z.
TexturedCoord(inv_z, tex_x, tex_y) ==
    pixel_coord(0, 0, inv_z, inv_z, RMul(Num(255), inv_z), RMul(Num(255), inv_z),
                RMul(Num(255), inv_z), RMul(tex_x, inv_z), RMul(tex_y, inv_z))

InitTexel ==
    /\ scene = EmptyScene
    /\ PipeIdle
    /\ RowIdle
    /\ FrameIdle
    /\ calls = 0
    /\ first_surface = ClearSurface(Width, Height)
    /\ call \in { [op |-> "draw_shaded_row", args |-> <<TexturedCoord(inv_z, tex_x, tex_y), bitmap>>] :
                    inv_z \in {One, Rat(1, 2)}, tex_x \in TexCoords, tex_y \in TexCoords,
                    bitmap \in Bitmaps }
    /\ result = Pending
    /\ window = NoWindow

\* A row of one pixel is drawn with the bitmap; the result is the texel index
\* the row computes from the coordinates it recovers.
DrawTexturedPixel ==
    /\ call.op = "draw_shaded_row"
    /\ result = Pending
    /\ result' = Returned(texel_index(call.args[2],
                                      RDiv(call.args[1].tex_x_div_z, call.args[1].inv_z),
                                      RDiv(call.args[1].tex_y_div_z, call.args[1].inv_z)))
    /\ \E garbage \in GarbageReads(0) :
           surface' = draw_shaded_row(surface, 0, call.args[1], call.args[1], call.args[2],
                                      surface.width, surface.height, garbage, TRUE)
    /\ UNCHANGED <<scene, triangles, active, stage, clip_log, prev_triangles, prev_active, itr,
                   aa_surface, draws, frame_vars, calls, first_surface, call, window>>

NextTexel == DrawTexturedPixel

SpecTexel == InitTexel /\ [][NextTexel]_vars

\* ------------------------------------ constructions from initialiser lists

ElemValues == {1, 2}

\* What an element that is never set can hold.
Indeterminate == {0, 7}

\* The initialiser lists of at most n elements.
ListsUpTo(n) == UNION { [1..k -> ElemValues] : k \in 0..n }

InitConstruct ==
    /\ scene = EmptyScene
    /\ PipeIdle
    /\ RowIdle
    /\ FrameIdle
    /\ calls = 0
    /\ first_surface = ClearSurface(Width, Height)
    /\ call \in { [op |-> "Vector", args |-> elems] : elems \in ListsUpTo(VectorN + 1) }
               \cup { [op |-> "Matrix", args |-> elems] : elems \in ListsUpTo(MatrixM * MatrixN + 1) }
    /\ result = Pending
    /\ window = NoWindow

ConstructVector ==
    /\ call.op = "Vector"
    /\ result = Pending
    /\ result' = vector_from_list(call.args, VectorN)
    /\ UNCHANGED <<pipe_vars, row_vars, frame_vars, calls, first_surface, call, window>>

ConstructMatrix ==
    /\ call.op = "Matrix"
    /\ result = Pending
    /\ \E indeterminate \in [1..(MatrixM * MatrixN) -> Indeterminate] :
           result' = matrix_from_list(call.args, MatrixM, MatrixN, indeterminate)
    /\ UNCHANGED <<pipe_vars, row_vars, frame_vars, calls, first_surface, call, window>>

NextConstruct ==
    \/ ConstructVector
    \/ ConstructMatrix

SpecConstruct == InitConstruct /\ [][NextConstruct]_vars

\* ------------------- the stages called on a buffer that is in camera space

\* The same three vertices in the opposite cyclic order.
Reversed(triangle) ==
    Triangle(triangle.points[3], triangle.points[2], triangle.points[1])

\* Vertices in front of the camera: three in the plane z = 2 and one behind
\* it, so that triangles face the camera, face away from it, are tilted or
\* are seen edge-on, and some have no area.
CameraPool ==
    { MeshPoint(0, 0, 2), MeshPoint(1, 0, 2), MeshPoint(0, 1, 2), MeshPoint(0, 0, 3) }

CameraTriangles == { Triangle(p0, p1, p2) : p0 \in CameraPool, p1 \in CameraPool, p2 \in CameraPool }

\* The triangle buffers: one triangle, a triangle twice, or a triangle and
\* its reversal.
CameraBuffers ==
    { <<t>> : t \in CameraTriangles }
        \cup { <<t, t>> : t \in CameraTriangles }
        \cup { <<t, Reversed(t)>> : t \in CameraTriangles }

\* The active lists over a buffer: any of its indices, once each, in any
\* order.
ActiveLists(n) ==
    IF n = 1 THEN { <<>>, <<0>> }
    ELSE { <<>>, <<0>>, <<1>>, <<0, 1>>, <<1, 0>> }

\* A camera-space vertex at (x, y, z), white, with w = 1.
CameraPoint(x, y, z) ==
    Point(Vec(x, y, z, One), Zero, Num(255), Num(255), Num(255), Zero, Zero,
          Zero, Zero, Zero, Zero, Zero, Zero, Zero)

\* The triangle of scenario E2: one vertex at z = 1/2, before the near plane
\* z = 1, and two at z = 2, beyond it.
ScenarioE2 ==
    Triangle(CameraPoint(Zero, Zero, Rat(1, 2)), CameraPoint(Num(2), Zero, Num(2)),
             CameraPoint(Zero, Num(2), Num(2)))

\* The vertices of scenario E2, one on the near plane and one beyond it.
NearPool ==
    { CameraPoint(Zero, Zero, Rat(1, 2)), CameraPoint(Num(2), Zero, Num(2)),
      CameraPoint(Zero, Num(2), Num(2)), CameraPoint(Zero, Zero, One),
      CameraPoint(Num(2), Num(2), Num(3)) }

NearTriangles == { Triangle(p0, p1, p2) : p0 \in NearPool, p1 \in NearPool, p2 \in NearPool }

\* Flat triangles with intensities 0: every triangle over three vertices of
\* the plane z = 2, with the normal (0, 0, 1), (0, 0, -1) or none, and the
\* two windings of a tilted triangle with the normal (0, 3, 4) or (0, -3, -4).
FlatPool == { MeshPoint(0, 0, 2), MeshPoint(1, 0, 2), MeshPoint(0, 1, 2) }

FlatTriangles ==
    { Triangle(p0, p1, p2) : p0 \in FlatPool, p1 \in FlatPool, p2 \in FlatPool }
        \cup { Triangle(MeshPoint(0, 0, 5), MeshPoint(1, 0, 5), MeshPoint(0, 4, 2)),
               Triangle(MeshPoint(0, 0, 5), MeshPoint(0, 4, 2), MeshPoint(1, 0, 5)) }

\* One directional light along one of the normals, of intensity 0, 1/2 or 1.
DirectionLights ==
    { [type |-> "DIRECTION", intensity |-> intensity, vec |-> vec] :
        intensity \in {Zero, Rat(1, 2), One},
        vec \in {VecI(0, 0, 1, 0), VecI(0, 0, -1, 0), VecI(0, 3, 4, 0), VecI(0, -3, -4, 0)} }

DirectionScenes ==
    { [models |-> <<>>, lights |-> <<light>>, camera |-> EmptyScene.camera] :
        light \in DirectionLights }

\* A vertex in pixel space at the pixel (x, y), at depth 2, white and fully
\* lit, as perspective_project_triangles and
\* convert_triangles_to_pixel_space leave it.
PixelPoint(x, y) ==
    Point(VecI(x, y, 2, 1), One, Num(255), Num(255), Num(255), Zero, Zero,
          Rat(1, 2), Rat(1, 2), Rat(255, 2), Rat(255, 2), Rat(255, 2), Zero, Zero)

\* Pixels of which three can coincide, lie on a horizontal, a vertical or a
\* slanted line, or span a triangle.
PixelPool ==
    { PixelPoint(0, 0), PixelPoint(1, 0), PixelPoint(2, 0), PixelPoint(1, 1),
      PixelPoint(2, 2), PixelPoint(0, 2), PixelPoint(3, 1) }

PixelTriangles == { Triangle(p0, p1, p2) : p0 \in PixelPool, p1 \in PixelPool, p2 \in PixelPool }

\* The state before a call of one of the stages: the cull stage on a buffer
\* and an active list, the near clip on one active triangle, the lighting
\* stage on one active triangle under one directional light, or the
\* rasteriser on one active triangle in pixel space.
InitStage ==
    /\ \/ /\ stage = "pixel"
          /\ scene = EmptyScene
          /\ triangles \in { <<t>> : t \in PixelTriangles }
          /\ active = <<0>>
          /\ surface = ClearSurface(SceneWidth, SceneHeight)
       \/ /\ stage = "unlit"
          /\ scene \in DirectionScenes
          /\ triangles \in { <<t>> : t \in FlatTriangles }
          /\ active = <<0>>
          /\ surface = ClearSurface(Width, Height)
       \/ /\ stage = "camera"
          /\ scene = EmptyScene
          /\ triangles \in CameraBuffers
          /\ active \in ActiveLists(Len(triangles))
          /\ surface = ClearSurface(Width, Height)
       \/ /\ stage = "unclipped"
          /\ scene = EmptyScene
          /\ triangles \in { <<t>> : t \in NearTriangles }
          /\ active = <<0>>
          /\ surface = ClearSurface(Width, Height)
    /\ clip_log = <<>>
    /\ prev_triangles = <<>>
    /\ prev_active = <<>>
    /\ itr = 1
    /\ aa_surface = ClearSurface(Width, Height)
    /\ draws = 0
    /\ FrameIdle
    /\ CallIdle

\* cull_triangle_back_faces called a second time, right after the first.
CullAgain ==
    RunStage("culled", "reculled", triangles,
             cull_triangle_back_faces(triangles, active), <<>>)

\* clip_near_plane called on a buffer that no other stage has touched.
NearClipCall ==
    RunClip("unclipped", "near", clip_near_plane(triangles, active))

\* compute_triangle_lighting called on a buffer that no other stage has
\* touched.
LightingCall ==
    RunStage("unlit", "lit",
             compute_triangle_lighting(triangles, active, scene.lights),
             active, <<>>)

NextStage ==
    \/ CullBackFaces
    \/ CullAgain
    \/ NearClipCall
    \/ LightingCall
    \/ Rasterise

SpecStage == InitStage /\ [][NextStage]_vars

\* ------------------------------- clip_triangles, iteration by iteration

MaxClipBuffer == 3

\* Camera-space triangles with no, one, two and three vertices beyond the
\* near plane: removed, trimmed to one triangle, split in two, kept.
ClipLoopTriangles ==
    { Triangle(CameraPoint(Zero, Zero, Rat(1, 2)), CameraPoint(Zero, Zero, Rat(1, 2)),
               CameraPoint(Zero, Zero, Rat(1, 2))),
      Triangle(CameraPoint(Zero, Zero, Rat(1, 2)), CameraPoint(Num(2), Zero, Rat(1, 2)),
               CameraPoint(Zero, Num(2), Num(2))),
      ScenarioE2,
      Triangle(CameraPoint(Num(2), Zero, Num(2)), CameraPoint(Zero, Num(2), Num(2)),
               CameraPoint(Num(2), Num(2), Num(3))) }

ClipLoopBuffers == UNION { [1..n -> ClipLoopTriangles] : n \in 1..MaxClipBuffer }

\* The active lists over a buffer of n triangles: any of its indices, once
\* each, in any order.
DistinctLists(n) ==
    UNION { { s \in [1..k -> 0..(n - 1)] : \A a, b \in 1..k : s[a] = s[b] => a = b } :
            k \in 0..n }

InitClipLoop ==
    /\ scene = EmptyScene
    /\ triangles \in ClipLoopBuffers
    /\ active \in DistinctLists(Len(triangles))
    /\ stage = "clipping"
    /\ clip_log = <<>>
    /\ prev_triangles = triangles
    /\ prev_active = active
    /\ itr = 1
    /\ RowIdle
    /\ FrameIdle
    /\ calls = 0
    /\ first_surface = ClearSurface(Width, Height)
    /\ call = [op |-> "clip_triangles", args |-> <<"near">>]
    /\ result = Pending
    /\ window = NoWindow

\* The loop as clip_triangles has left it after some iterations.
ClipLoopState == [triangles |-> triangles, active |-> active, itr |-> itr, log |-> clip_log]

\* One turn of the while loop: itr != active_indices.end().
ClipStep ==
    /\ stage = "clipping"
    /\ itr <= Len(active)
    /\ \E st \in {clip_iteration(call.args[1], ClipLoopState)} :
           /\ triangles' = st.triangles
           /\ active' = st.active
           /\ itr' = st.itr
           /\ clip_log' = st.log
    /\ UNCHANGED <<scene, stage, prev_triangles, prev_active, row_vars, frame_vars, call_vars>>

\* The iterator is at the end of the list: clip_triangles returns.
ClipReturn ==
    /\ stage = "clipping"
    /\ ~(itr <= Len(active))
    /\ stage' = "near"
    /\ result' = Done
    /\ UNCHANGED <<scene, triangles, active, clip_log, prev_triangles, prev_active, itr,
                   row_vars, frame_vars, calls, first_surface, call, window>>

NextClipLoop ==
    \/ ClipStep
    \/ ClipReturn

\* clip_triangles is a sequential loop with nothing to wait for: a turn that
\* can be taken is taken.
SpecClipLoop == InitClipLoop /\ [][NextClipLoop]_vars /\ WF_vars(ClipStep) /\ WF_vars(ClipReturn)

\* ------------------------------------------ properties of the clip passes

\* The active triangles: the triangles the active indices name.
ActiveInRange == \A k \in 1..Len(active) : active[k] \in 0..(Len(triangles) - 1)

ActiveVertices ==
    { triangles[active[k] + 1].points[j] :
        k \in { a \in 1..Len(active) : active[a] \in 0..(Len(triangles) - 1) },
        j \in 1..3 }

\* The number of vertices of a visited triangle that are inside the region.
NumInside(in_points) ==
    Cardinality({ i \in 1..3 : in_points[i] })

\* C1: clip_points emits 0, 3 or 4 vertices and never 1 or 2: 0 when no
\* input vertex is inside, 3 when all three or exactly one are inside, 4 when
\* exactly two are inside.
C1_ClipPointsCount ==
    \A k \in 1..Len(clip_log) :
        LET e == clip_log[k]
            inside == NumInside(e.in_points)
        IN  /\ e.num_clipped_points \in {0, 3, 4}
            /\ (inside = 0) => (e.num_clipped_points = 0)
            /\ (inside = 1) => (e.num_clipped_points = 3)
            /\ (inside = 2) => (e.num_clipped_points = 4)
            /\ (inside = 3) => (e.num_clipped_points = 3)

\* The near-plane pass has visited a triangle with exactly two vertices
\* inside and emitted four vertices for it.
C1_Witness ==
    /\ \E k \in 1..Len(clip_log) :
           NumInside(clip_log[k].in_points) = 2 /\ clip_log[k].num_clipped_points = 4
    /\ stage = "near"

\* Where an emitted vertex sits on the perimeter v0, x01, v1, x12, v2, x20.
PerimeterPos(src) == IF Len(src) = 1 THEN 2 * src[1] ELSE 2 * src[1] + 1

\* The normal of a triangle by the right-hand rule on (p1 - p0) and (p2 - p0).
WindingNormal(triangle) ==
    cross(VSub(triangle.points[2].pos, triangle.points[1].pos),
          VSub(triangle.points[3].pos, triangle.points[1].pos))

IsZeroVec(v) == \A k \in 1..4 : v[k] = Zero

\* The two triangles lie in parallel planes and turn the same way (a
\* degenerate one turns no way at all).
SameWinding(out, source) ==
    /\ IsZeroVec(cross(WindingNormal(out), WindingNormal(source)))
    /\ RGe(dot(WindingNormal(out), WindingNormal(source)), Zero)

\* C2: clipping preserves winding.  The emitted vertices are the retained
\* inputs in the input order v0, v1, v2, the intersection of a crossed edge
\* (vi, vi+1) between vi and vi+1; the triangles make_triangles builds from
\* them, (o0, o1, o2) and (o0, o2, o3), turn the same way as the source.
C2_ClipKeepsWinding ==
    \A k \in 1..Len(clip_log) :
        LET e == clip_log[k]
        IN  /\ \A a \in 1..Len(e.src) :
                  /\ (Len(e.src[a]) = 1) => (e.points[a] = e.triangle.points[e.src[a][1] + 1])
                  /\ (Len(e.src[a]) = 2) => (e.src[a][2] = (e.src[a][1] + 1) % 3)
            /\ \A a \in 1..(Len(e.src) - 1) :
                  PerimeterPos(e.src[a]) < PerimeterPos(e.src[a + 1])
            /\ Len(e.out_triangles) = (IF Len(e.points) = 0 THEN 0 ELSE Len(e.points) - 2)
            /\ \A t \in 1..Len(e.out_triangles) :
                  /\ e.out_triangles[t].points
                         = <<e.points[1], e.points[t + 1], e.points[t + 2]>>
                  /\ SameWinding(e.out_triangles[t], e.triangle)

\* A pass has split a triangle of non-zero area into two of non-zero area.
C2_Witness ==
    \E k \in 1..Len(clip_log) :
        /\ Len(clip_log[k].out_triangles) = 2
        /\ ~IsZeroVec(WindingNormal(clip_log[k].triangle))
        /\ ~IsZeroVec(WindingNormal(clip_log[k].out_triangles[1]))
        /\ ~IsZeroVec(WindingNormal(clip_log[k].out_triangles[2]))

\* --------------------------------------------- properties of the stages

\* C3: every active index is in [0, #triangles) right after the collect
\* step, as render_scene does it and as build_triangles_list_from_models
\* does it, and after every later stage.
C3_ActiveIndicesInRange == ActiveInRange

\* The same along render_scene alone, where the index pushed is the count of
\* triangles pushed before.
C3_RenderSceneIndicesInRange == (stage # "built") => ActiveInRange

AfterNearClip == stage \in {"near", "projected", "left", "right", "top", "bottom", "pixel"}

\* C4: after clip_near_plane every vertex of every active triangle has
\* z >= view_plane_distance, and the later stages keep it so.
C4_NearClipBound ==
    AfterNearClip =>
        /\ ActiveInRange
        /\ \A p \in ActiveVertices : RGe(p.pos[3], view_plane_distance)

\* The near pass has cut a triangle that straddles the plane and kept the
\* part in front of it.
C4_Witness ==
    /\ stage = "near"
    /\ active # <<>>
    /\ \E k \in 1..Len(clip_log) : NumInside(clip_log[k].in_points) \in {1, 2}

\* C5: after the four screen-edge passes every active vertex has
\* left <= x <= right and bottom <= y <= top; a later pass never breaks the
\* bound of an earlier one.
C5_ScreenBounds ==
    \A p \in ActiveVertices :
        /\ (stage \in {"left", "right", "top", "bottom"}) =>
               RGe(p.pos[1], screen_left_bound)
        /\ (stage \in {"right", "top", "bottom"}) =>
               RLe(p.pos[1], screen_right_bound)
        /\ (stage \in {"top", "bottom"}) =>
               RLe(p.pos[2], screen_top_bound)
        /\ (stage = "bottom") =>
               RGe(p.pos[2], screen_bottom_bound)

\* The four passes have run, the last of them cut a triangle that crossed
\* the bottom edge, and more than one triangle is left.
C5_Witness ==
    /\ stage = "bottom"
    /\ Len(active) >= 2
    /\ \E k \in 1..Len(clip_log) : NumInside(clip_log[k].in_points) \in {1, 2}

\* The z component of (v1 - v0) x (v2 - v1), which is its dot product with
\* the view direction (0, 0, 1, 0).
FacingZ(triangle) ==
    LET v0 == triangle.points[1].pos
        v1 == triangle.points[2].pos
        v2 == triangle.points[3].pos
    IN  RSub(RMul(RSub(v1[1], v0[1]), RSub(v2[2], v1[2])),
             RMul(RSub(v1[2], v0[2]), RSub(v2[1], v1[1])))

FacesAway(index) == RGt(FacingZ(prev_triangles[index + 1]), Zero)

FacesCamera(index) == ~FacesAway(index)

\* C10: after cull_triangle_back_faces every active triangle has
\* dot(N, (0, 0, 1, 0)) <= 0 for N = (v1 - v0) x (v2 - v1); the stage removes
\* an index exactly when that dot product is > 0, keeps the others in their
\* order, and changes no triangle.
C10_CullBackFaces ==
    (stage = "culled") =>
        /\ triangles = prev_triangles
        /\ active = SelectSeq(prev_active, FacesCamera)
        /\ \A k \in 1..Len(active) :
               RLe(dot(cull_normal(triangles[active[k] + 1]), view_dir), Zero)

\* The cull stage has removed a triangle that faces away and kept another.
C10_Witness ==
    /\ stage = "culled"
    /\ active # <<>>
    /\ Len(active) < Len(prev_active)
    /\ \E k \in 1..Len(prev_active) : FacesAway(prev_active[k])

\* ------------------------------------------ properties of the depth test

Cells == 1..(Width * Height)

RECURSIVE MaxOf(_)
MaxOf(rats) ==
    IF rats = <<>> THEN Zero
    ELSE LET rest == MaxOf(Tail(rats))
         IN  IF RGt(rats[1], rest) THEN rats[1] ELSE rest

RECURSIVE InvZsOf(_, _)
InvZsOf(h, written_only) ==
    IF h = <<>> THEN <<>>
    ELSE (IF written_only /\ ~h[1].written THEN <<>> ELSE <<h[1].inv_z>>)
             \o InvZsOf(Tail(h), written_only)

\* The greatest 1/z of the fragments accepted at a cell, zero when none was.
MaxAccepted(h) == MaxOf(InvZsOf(h, TRUE))

\* The greatest 1/z of the fragments submitted at a cell.
MaxSubmitted(h) == MaxOf(InvZsOf(h, FALSE))

\* The first submitted fragment whose 1/z is the greatest submitted.
FirstOfMax(h) ==
    h[CHOOSE k \in 1..Len(h) :
          /\ h[k].inv_z = MaxSubmitted(h)
          /\ \A j \in 1..(k - 1) : h[j].inv_z # MaxSubmitted(h)]

\* C6: on a surface cleared to zero, a fragment submitted at a pixel of the
\* surface is written iff its 1/z is strictly greater than the depth stored
\* there; the depth of a cell never decreases and is the greatest 1/z
\* accepted there; the colour of the cell is that of the first submitted
\* fragment of greatest 1/z.  (Stated for as long as no store has fallen
\* outside the buffers.)
C6_DepthTest ==
    (surface.stray = {}) =>
        \A c \in Cells :
            LET h == surface.fragments[c]
            IN  /\ \A k \in 1..Len(h) :
                      /\ h[k].written <=> RGt(h[k].inv_z, h[k].stored)
                      /\ h[k].stored = MaxAccepted(SubSeq(h, 1, k - 1))
                      /\ RLe(h[k].stored, surface.depth_buffer[c])
                      /\ \A j \in 1..(k - 1) : RLe(h[j].stored, h[k].stored)
                /\ surface.depth_buffer[c] = MaxAccepted(h)
                /\ (\E k \in 1..Len(h) : h[k].written) =>
                       /\ surface.rgba_buffer[c] = FirstOfMax(h).colour
                       /\ MaxAccepted(h) = MaxSubmitted(h)
                /\ (\A k \in 1..Len(h) : ~h[k].written) => (surface.rgba_buffer[c] = 0)

\* A cell has taken a fragment and then refused one of the same 1/z and of
\* another colour.
C6_Witness ==
    /\ surface.stray = {}
    /\ \E c \in Cells :
           LET h == surface.fragments[c]
           IN  /\ Len(h) = 2
               /\ h[1].written
               /\ ~h[2].written
               /\ h[2].inv_z = h[1].inv_z
               /\ h[2].colour # h[1].colour
               /\ surface.rgba_buffer[c] = h[1].colour

\* C7: whatever the scanline and the endpoints given to draw_shaded_row,
\* every draw_pixel and every depth-buffer write is at a coordinate with
\* 0 <= x < width and 0 <= y < height: nothing is stored outside the buffer.
C7_StoresInsideBuffer ==
    /\ \A xy \in surface.stores : InBuffer(surface, xy[1], xy[2])
    /\ surface.stray = {}

\* Every store is at a column of the surface and at a scanline of the
\* surface or the one just past its last.
C7_StoresWithinTest ==
    \A xy \in surface.stores :
        xy[1] \in 0..(Width - 1) /\ xy[2] \in 0..Height

\* No two fragments submitted at the same pixel differ in 1/z.
NoDepthConflict ==
    \A c \in Cells :
        \A j, k \in 1..Len(surface.fragments[c]) :
            surface.fragments[c][j].inv_z = surface.fragments[c][k].inv_z

SamePixels == surface.rgba_buffer = aa_surface.rgba_buffer

\* At every pixel the last fragment submitted has the colour of the first
\* submitted fragment of greatest 1/z.
LastLooksLikeNearest ==
    \A c \in Cells :
        LET h == surface.fragments[c]
        IN  (h # <<>>) => (h[Len(h)].colour = FirstOfMax(h).colour)

\* C9, as stated: the rasteriser without the depth test yields the same
\* final pixels iff no two fragments at the same pixel differ in 1/z.
C9_AsStated ==
    (aa_surface.stray = {}) => (SamePixels <=> NoDepthConflict)

\* C9, amended: for fragments of positive 1/z drawn onto a cleared surface,
\* the rasteriser without the depth test yields the same final pixels iff at
\* every pixel the last fragment submitted has the colour of the first
\* submitted fragment of greatest 1/z.
C9_AlwaysAcceptEquivalence ==
    (aa_surface.stray = {}) => (SamePixels <=> LastLooksLikeNearest)

\* Pixels agree although two fragments at a pixel differ in 1/z: the nearer
\* came last.
C9_Witness ==
    /\ aa_surface.stray = {}
    /\ SamePixels
    /\ ~NoDepthConflict
    /\ \E c \in Cells :
           /\ Len(surface.fragments[c]) = 2
           /\ RLt(surface.fragments[c][1].inv_z, surface.fragments[c][2].inv_z)

\* ------------------------------------- properties of the active-list order

\* The triangles a frame's active indices name.
ActiveTriangles(run) == { run.triangles[run.active[k] + 1] : k \in 1..Len(run.active) }

\* C8: the result of a frame does not depend on the order of the active
\* list: with the list permuted at a stage boundary, the stages produce the
\* same set of active triangles and the same final colour buffer and depth
\* buffer.
C8_OrderIndependent ==
    /\ ActiveTriangles(run_a) = ActiveTriangles(run_b)
    /\ (frame_stage = "rasterised") =>
           /\ surface_a.rgba_buffer = surface_b.rgba_buffer
           /\ surface_a.depth_buffer = surface_b.depth_buffer

\* The part of it that holds: the same active triangles after every stage,
\* and the same depth buffer after the frame.
C8_SameTrianglesAndDepth ==
    /\ ActiveTriangles(run_a) = ActiveTriangles(run_b)
    /\ (frame_stage = "rasterised") => (surface_a.depth_buffer = surface_b.depth_buffer)

\* ------------------------------------------ properties of the cull stage

\* C11: back-face culling is idempotent: a second run of
\* cull_triangle_back_faces right after the first leaves the active list as
\* the first run left it, and the triangles as they were.
C11_CullIdempotent ==
    (stage = "reculled") =>
        /\ active = prev_active
        /\ triangles = prev_triangles

\* The second run has been made on a list of which the first run removed a
\* triangle and kept another.
C11_Witness ==
    /\ stage = "reculled"
    /\ prev_active # <<>>
    /\ Len(prev_active) < Len(triangles)
    /\ \E k \in 1..Len(triangles) : RGt(FacingZ(triangles[k]), Zero)

IsActive(index) == \E k \in 1..Len(active) : active[k] = index

\* Two indices of the list the cull stage was given that name a triangle of
\* which the normal has a z that is not zero, and its reversal.
ReversedPairs ==
    { pair \in {prev_active[k] : k \in 1..Len(prev_active)} \X {prev_active[k] : k \in 1..Len(prev_active)} :
        /\ FacingZ(prev_triangles[pair[1] + 1]) # Zero
        /\ prev_triangles[pair[2] + 1] = Reversed(prev_triangles[pair[1] + 1]) }

\* C12: of a camera-space triangle whose normal has a non-zero z and the
\* same triangle with its winding reversed, exactly one stays active after
\* the cull stage: the one whose normal points toward the camera (z < 0).
C12_ExactlyOneWinding ==
    (stage = "culled") =>
        \A pair \in ReversedPairs :
            /\ IsActive(pair[1]) # IsActive(pair[2])
            /\ IsActive(pair[1]) = RLt(FacingZ(prev_triangles[pair[1] + 1]), Zero)

\* The cull stage has run on a triangle that faces the camera and on its
\* reversal, and on a tilted triangle and its reversal.
C12_Witness ==
    /\ stage = "culled"
    /\ \E pair \in ReversedPairs :
           /\ RLt(FacingZ(prev_triangles[pair[1] + 1]), Zero)
           /\ prev_triangles[pair[1] + 1].points[1].pos[3] # prev_triangles[pair[1] + 1].points[2].pos[3]

\* ------------------------------------------------- the near clip of E2

OnNearPlane(point) == point.pos[3] = view_plane_distance

NumOnNearPlane(triangle) ==
    Cardinality({ j \in 1..3 : OnNearPlane(triangle.points[j]) })

PositionsOf(triangle) == { triangle.points[j].pos : j \in 1..3 }

\* The positions the two active triangles have in common.
SharedPositions ==
    PositionsOf(triangles[active[1] + 1]) \cap PositionsOf(triangles[active[2] + 1])

SharedOnNearPlane == { pos \in SharedPositions : pos[3] = view_plane_distance }

\* clip_near_plane has run on the triangle of scenario E2.
E2Clipped ==
    /\ stage = "near"
    /\ prev_triangles = <<ScenarioE2>>
    /\ prev_active = <<0>>

TwoActiveSharingAnEdge ==
    /\ Len(active) = 2
    /\ ActiveInRange
    /\ active[1] # active[2]
    /\ Cardinality(SharedPositions) = 2

\* C13 as the scenario states it: two active triangles that share an edge on
\* the plane z = 1, each of them with one vertex on the plane.
C13_AsStated ==
    E2Clipped =>
        /\ TwoActiveSharingAnEdge
        /\ SharedOnNearPlane = SharedPositions
        /\ \A k \in 1..2 : NumOnNearPlane(triangles[active[k] + 1]) = 1

\* C13: clipping the triangle ((0,0,1/2), (2,0,2), (0,2,2)) against the near
\* plane z = 1 leaves exactly two active triangles that share an edge, the
\* diagonal from (2/3,0,1) to (0,2,2), of which one end is on the plane; the
\* first triangle made has one vertex on the plane and the second has two,
\* (2/3,0,1) and (0,2/3,1), and no vertex is before the plane.
C13_NearClipSplit ==
    E2Clipped =>
        /\ TwoActiveSharingAnEdge
        /\ SharedPositions = { <<Rat(2, 3), Zero, One, One>>, <<Zero, Num(2), Num(2), One>> }
        /\ Cardinality(SharedOnNearPlane) = 1
        /\ NumOnNearPlane(triangles[1]) = 1
        /\ NumOnNearPlane(triangles[2]) = 2
        /\ PositionsOf(triangles[2]) =
               { <<Rat(2, 3), Zero, One, One>>, <<Zero, Num(2), Num(2), One>>,
                 <<Zero, Rat(2, 3), One, One>> }
        /\ \A k \in 1..2 : \A j \in 1..3 :
               RGe(triangles[k].points[j].pos[3], view_plane_distance)

\* The near clip has split the triangle of scenario E2 in two.
C13_Witness ==
    /\ E2Clipped
    /\ Len(active) = 2
    /\ Len(triangles) = 2

\* ------------------------------------------ a directional light (E4)

Antiparallel(u, v) == IsZeroVec(cross(u, v)) /\ RLt(dot(u, v), Zero)

Parallel(u, v) == IsZeroVec(cross(u, v)) /\ RGt(dot(u, v), Zero)

\* compute_triangle_lighting has run on one triangle whose intensities were
\* 0, under one directional light.
LitByOneDirection ==
    /\ stage = "lit"
    /\ Len(scene.lights) = 1
    /\ scene.lights[1].type = "DIRECTION"
    /\ prev_active = <<0>>
    /\ \A j \in 1..3 : prev_triangles[1].points[j].i = Zero

\* Every vertex intensity of the lit triangle is the given one.
EveryIntensityIs(intensity) ==
    \A j \in 1..3 : triangles[1].points[j].i = intensity

\* C15 as scenario E4 states it: under a directional light whose vector is
\* antiparallel to the face normal (v1 - v0) x (v2 - v0) of a flat triangle
\* whose intensities were 0, every vertex intensity becomes light.intensity.
C15_AntiparallelLit ==
    (LitByOneDirection /\ Antiparallel(WindingNormal(prev_triangles[1]), scene.lights[1].vec)) =>
        EveryIntensityIs(scene.lights[1].intensity)

\* What the stage does: the antiparallel light adds -light.intensity, which
\* the clamp brings to 0, and the parallel light leaves light.intensity.
C15_AntiparallelDark ==
    LitByOneDirection =>
        /\ Antiparallel(WindingNormal(prev_triangles[1]), scene.lights[1].vec) =>
               EveryIntensityIs(Zero)
        /\ Parallel(WindingNormal(prev_triangles[1]), scene.lights[1].vec) =>
               EveryIntensityIs(scene.lights[1].intensity)

\* ---------------------------------------------- a single triangle (E1)

\* The scene of scenario E1 around a mesh of one triangle: no rotation, the
\* camera at the origin, no lights.
SceneOfOne(triangle) ==
    [models |-> <<[mesh |-> <<triangle>>, position |-> Origin,
                   scale |-> VecI(1, 1, 1, 0), rotation |-> <<0, 0, 0, 0>>]>>,
     lights |-> <<>>,
     camera |-> [position |-> Origin, rotation |-> <<0, 0, 0, 0>>]]

\* The triangle in pixel space: projected and mapped to the surface.
ProjectedOnSurface(triangle) ==
    convert_triangles_to_pixel_space(perspective_project_triangles(<<triangle>>, <<0>>),
                                     <<0>>, SceneWidth, SceneHeight)[1]

PixelCorner(point) == <<Floor(point.pos[1]), Floor(point.pos[2])>>

EdgeFunction(a, b, p) == (b[1] - a[1]) * (p[2] - a[2]) - (b[2] - a[2]) * (p[1] - a[1])

Sign(n) == IF n > 0 THEN 1 ELSE IF n < 0 THEN -1 ELSE 0

\* The pixel p is not more than slack columns outside the edge from a to b
\* of the triangle a, b, c.
NearEdge(a, b, c, p, slack) ==
    Sign(EdgeFunction(a, b, c)) * EdgeFunction(a, b, p) >= -(slack * Abs(b[2] - a[2]))

NearCorners(a, b, c, p, slack) ==
    NearEdge(a, b, c, p, slack) /\ NearEdge(b, c, a, p, slack) /\ NearEdge(c, a, b, p, slack)

\* Every pixel written is inside the triangle in pixel space or on its
\* border (slack 0), or less than a column away from it (slack 1).
WrittenInside(triangle, slack) ==
    \A p \in surface.stores :
        NearCorners(PixelCorner(triangle.points[1]), PixelCorner(triangle.points[2]),
                    PixelCorner(triangle.points[3]), p, slack)

WrittenAtDepth(inv_z) ==
    \A p \in surface.stores :
        /\ InBuffer(surface, p[1], p[2])
        /\ surface.depth_buffer[CellOf(surface, p[1], p[2])] = inv_z

\* C14 as scenario E1 states it: the triangle ((-1,0,2), (1,0,2), (0,1,2))
\* rendered with no rotation, the camera at the origin and no lights stays
\* active through every stage, at least one pixel is written, the depth cell
\* of every written pixel holds 1/2 and no pixel is written outside the
\* projected triangle.
C14_E1Rendered ==
    (stage = "drawn" /\ scene = SceneOfOne(ScenarioE1)) =>
        /\ active # <<>>
        /\ surface.stores # {}
        /\ WrittenAtDepth(Rat(1, 2))
        /\ WrittenInside(ProjectedOnSurface(ScenarioE1), 0)

\* What render_scene does with the triangle of E1: the cull stage removes it
\* and nothing is written.
C14_E1Culled ==
    (scene = SceneOfOne(ScenarioE1) /\ stage \in {"culled", "lit", "near", "projected", "left", "right", "top", "bottom", "pixel", "drawn"}) =>
        /\ active = <<>>
        /\ surface = ClearSurface(SceneWidth, SceneHeight)

\* The same triangle with its winding reversed is drawn as E1 expects.
C14_E1ReversedRendered ==
    (stage = "drawn" /\ scene = SceneOfOne(ScenarioE1Reversed)) =>
        /\ active = <<0>>
        /\ surface.stores # {}
        /\ surface.stray = {}
        /\ WrittenAtDepth(Rat(1, 2))
        /\ WrittenInside(ProjectedOnSurface(ScenarioE1Reversed), 1)
        /\ WrittenInside(triangles[1], 1)

\* ------------------------------------------ the scene across the calls

\* The vertex intensities of the triangles of a mesh or of the vector.
IntensitiesOf(some_triangles) ==
    [k \in 1..Len(some_triangles) |->
        <<some_triangles[k].points[1].i, some_triangles[k].points[2].i,
          some_triangles[k].points[3].i>>]

PixelArea(triangle) ==
    EdgeFunction(PixelCorner(triangle.points[1]), PixelCorner(triangle.points[2]),
                 PixelCorner(triangle.points[3]))

PixelRows(triangle) == { PixelCorner(triangle.points[j])[2] : j \in 1..3 }

\* The rasteriser has been called on the one triangle of the buffer.
DrawnAlone ==
    /\ stage = "drawn"
    /\ calls = 1
    /\ Len(triangles) = 1
    /\ active = <<0>>

NothingWritten ==
    /\ surface.stores = {}
    /\ surface.stray = {}
    /\ surface.rgba_buffer = ClearSurface(surface.width, surface.height).rgba_buffer
    /\ surface.depth_buffer = ClearSurface(surface.width, surface.height).depth_buffer

\* C17 as stated: for three pixel-space vertices that coincide or lie on a
\* line, whether or not their y values differ, draw_shaded_triangle writes
\* no pixel and no depth value.
C17_NoAreaNoPixels ==
    (DrawnAlone /\ PixelArea(triangles[1]) = 0) => NothingWritten

\* What draw_shaded_triangle does: it returns before drawing exactly when
\* the three vertices are on one scanline, and writes a pixel on every
\* scanline of any other triangle of no area.
C17_OneScanlineNoPixels ==
    DrawnAlone =>
        /\ (Cardinality(PixelRows(triangles[1])) = 1) => NothingWritten
        /\ (Cardinality(PixelRows(triangles[1])) > 1) =>
               \A row \in PixelRows(triangles[1]) : \E p \in surface.stores : p[2] = row

\* ------------------------------------------ the initialiser-list constructors

CapacityOf(some_call) ==
    IF some_call.op = "Vector" THEN VectorN ELSE MatrixM * MatrixN

\* The first elements of the object are those of the list.
LeadingElementsSet ==
    \A k \in 1..Len(call.args) : result.value[k] = call.args[k]

\* The elements of the object after those of the list are zero.
RemainingElementsZero ==
    \A k \in (Len(call.args) + 1)..CapacityOf(call) : result.value[k] = 0

\* C18 as stated: a list longer than the capacity (N, resp. M * N) raises a
\* length error and yields no object; a list that is not longer sets the
\* leading elements to its values and every remaining element to zero, for
\* Vector and for Matrix.
C18_ListConstructors ==
    (result # Pending) =>
        IF Len(call.args) > CapacityOf(call)
        THEN result = Thrown("length_error")
        ELSE /\ result.status = "constructed"
             /\ Len(result.value) = CapacityOf(call)
             /\ LeadingElementsSet
             /\ RemainingElementsZero

\* What the constructors do: the length error and the leading elements are
\* as stated for both; Vector sets its remaining elements to zero.
C18_VectorZeroFilled ==
    (result # Pending) =>
        IF Len(call.args) > CapacityOf(call)
        THEN result = Thrown("length_error")
        ELSE /\ result.status = "constructed"
             /\ Len(result.value) = CapacityOf(call)
             /\ LeadingElementsSet
             /\ (call.op = "Vector") => RemainingElementsZero


\* The parts of a line between the separators, the empty ones included.
RECURSIVE PartsFrom(_, _, _, _)
PartsFrom(chars, sep, k, part) ==
    IF k > Len(chars) THEN <<part>>
    ELSE IF chars[k] = sep THEN <<part>> \o PartsFrom(chars, sep, k + 1, <<>>)
    ELSE PartsFrom(chars, sep, k + 1, Append(part, chars[k]))

Parts(chars, sep) == PartsFrom(chars, sep, 1, <<>>)

\* The words of a line: what stands between its spaces.
Words(chars) == SelectSeq(Parts(chars, " "), LAMBDA part : part # <<>>)

IsNumber(part) == part # <<>> /\ \A k \in 1..Len(part) : part[k] \in Digits

RECURSIVE NumberFrom(_, _, _)
NumberFrom(part, k, value) ==
    IF k > Len(part) THEN value ELSE NumberFrom(part, k + 1, 10 * value + DigitValue(part[k]))

NumberOf(part) == NumberFrom(part, 1, 0)

\* The form of a face token by the file format: p, p/t, p//n, p/t/n with
\* numbers for p, t and n, and no form otherwise.
FormOfParts(parts) ==
    CASE Len(parts) = 1 /\ IsNumber(parts[1]) -> "P"
      [] Len(parts) = 2 /\ IsNumber(parts[1]) /\ IsNumber(parts[2]) -> "PT"
      [] Len(parts) = 3 /\ IsNumber(parts[1]) /\ parts[2] = <<>> /\ IsNumber(parts[3]) -> "PN"
      [] Len(parts) = 3 /\ IsNumber(parts[1]) /\ IsNumber(parts[2]) /\ IsNumber(parts[3]) -> "PTN"
      [] OTHER -> "ERROR"

TokenForm(token) == FormOfParts(Parts(token, "/"))

IsLine(line, mnemonic) == Words(line) # <<>> /\ Words(line)[1] = mnemonic

\* An f line with a token that fails to parse, or with tokens of different
\* forms.
MalformedFaceWords(words) ==
    \/ Len(words) < 4
    \/ \E k \in 2..4 : TokenForm(words[k]) = "ERROR"
    \/ \E j, k \in 2..4 : TokenForm(words[j]) # TokenForm(words[k])

MalformedFace(line) == IsLine(line, <<"f">>) /\ MalformedFaceWords(Words(line))

NumbersAfter(words, count) ==
    Len(words) > count /\ \A k \in 2..(count + 1) : IsNumber(words[k])

LineParses(line) ==
    /\ IsLine(line, <<"f">>) => ~MalformedFace(line)
    /\ IsLine(line, <<"v">>) => NumbersAfter(Words(line), 3)
    /\ IsLine(line, <<"v", "n">>) => NumbersAfter(Words(line), 3)
    /\ IsLine(line, <<"v", "t">>) => NumbersAfter(Words(line), 2)

EveryLineParses(lines) == \A k \in 1..Len(lines) : LineParses(lines[k])

\* The token up to its first character that is neither a digit nor a slash.
RECURSIVE UpToStray(_, _)
UpToStray(token, k) ==
    IF k > Len(token) \/ token[k] \notin Digits \cup {"/"} THEN SubSeq(token, 1, k - 1)
    ELSE UpToStray(token, k + 1)

\* The words of an f line with its third token cut at the first stray
\* character.
ThirdTokenCut(words) ==
    IF Len(words) < 4 THEN words ELSE SubSeq(words, 1, 3) \o <<UpToStray(words[4], 1)>>

\* An f line that is malformed even with what follows its third token left
\* out.
MalformedFaceRead(line) == IsLine(line, <<"f">>) /\ MalformedFaceWords(ThirdTokenCut(Words(line)))

EveryLineReads(lines) ==
    \A k \in 1..Len(lines) :
        IF IsLine(lines[k], <<"f">>) THEN ~MalformedFaceRead(lines[k]) ELSE LineParses(lines[k])

LinesOf(lines, mnemonic) == SelectSeq(lines, LAMBDA line : IsLine(line, mnemonic))

\* The position the v line gives.
VertexOfWords(words) ==
    Vec(Num(NumberOf(words[2])), Num(NumberOf(words[3])), Num(NumberOf(words[4])), One)

\* Where in the file its k-th f line stands, and the lines before it.
FacePlaces(lines) ==
    SelectSeq([n \in 1..Len(lines) |-> n], LAMBDA n : IsLine(lines[n], <<"f">>))

FaceWords(lines, k) == ThirdTokenCut(Words(lines[FacePlaces(lines)[k]]))

Before(lines, k, mnemonic) == LinesOf(SubSeq(lines, 1, FacePlaces(lines)[k] - 1), mnemonic)

PositionIndex(token) == NumberOf(Parts(token, "/")[1])

TextureIndex(token) == NumberOf(Parts(token, "/")[2])

\* Every index of the f lines names a v line before it, and a vt line before
\* it where the form has a t.
IndicesInRange(lines) ==
    \A k \in 1..Len(LinesOf(lines, <<"f">>)) : \A j \in 2..4 :
        /\ PositionIndex(FaceWords(lines, k)[j]) \in 1..Len(Before(lines, k, <<"v">>))
        /\ TokenForm(FaceWords(lines, k)[j]) \in {"PT", "PTN"}
               => TextureIndex(FaceWords(lines, k)[j]) \in 1..Len(Before(lines, k, <<"v", "t">>))

\* The mesh has one triangle for each f line, the k-th from the k-th f line.
OneTrianglePerFace(lines, mesh) ==
    /\ Len(mesh) = Len(LinesOf(lines, <<"f">>))
    /\ \A k \in 1..Len(mesh) : \A j \in 1..3 :
           PositionIndex(FaceWords(lines, k)[j + 1]) \in 1..Len(Before(lines, k, <<"v">>))
               => mesh[k].points[j].pos
                      = VertexOfWords(Words(Before(lines, k, <<"v">>)[PositionIndex(FaceWords(lines, k)[j + 1])]))

Loaded == call.op = "load_mesh_from_obj" /\ result # Pending

\* C19: load_mesh_from_obj returns null whenever an f line has a vertex token
\* that fails to parse or three tokens of different forms, whatever lines come
\* before or after it; when every line parses it returns a mesh with one
\* triangle for each f line, in the order of the file.
C19_NullOrOneTrianglePerFace ==
    Loaded =>
        /\ (\E k \in 1..Len(call.args) : MalformedFace(call.args[k])) => result = NullMesh
        /\ EveryLineParses(call.args)
               => result.status = "mesh" /\ OneTrianglePerFace(call.args, result.value)

\* What does hold, with the characters after the third token of an f line
\* left out of the reading: a malformed f line gives null wherever it
\* stands, a file whose lines all parse never gives null, and the call that
\* returns a mesh returns one triangle for each f line in the order of the
\* file; with every index in range it does return.
C19_InRangeOneTrianglePerFace ==
    Loaded =>
        /\ (\E k \in 1..Len(call.args) : MalformedFaceRead(call.args[k])) => result = NullMesh
        /\ EveryLineReads(call.args)
               => /\ result # NullMesh
                  /\ result.status = "mesh" => OneTrianglePerFace(call.args, result.value)
                  /\ IndicesInRange(call.args) => result.status = "mesh"

\* A file of two f lines that parse and name vertices of the file, loaded.
C19_TwoFacesLoaded ==
    /\ Loaded
    /\ EveryLineParses(call.args)
    /\ IndicesInRange(call.args)
    /\ Len(LinesOf(call.args, <<"f">>)) = 2
    /\ result.status = "mesh"


\* Whether the window is open, as its class tells it.
WindowOpen == IF window.impl = "X11Window" THEN is_open(window) ELSE ~is_closed(window)

IsDeleteMessage(event) ==
    event.type = "ClientMessage" /\ event.data = window_manager_delete_window_id

HasDeleteMessage(events) == \E k \in 1..Len(events) : IsDeleteMessage(events[k])

\* A handle_events call leaves nothing pending and returns false exactly
\* when a delete-window message was among the events it took, and then the
\* window is not open.
PumpedAsStated ==
    HandleEvents =>
        /\ window'.pending = <<>>
        /\ result'.value = ~HasDeleteMessage(window.pending)
        /\ HasDeleteMessage(window.pending) => ~WindowOpen'

ClosedAsStated == CloseWindow => ~WindowOpen'

AnsweredAsStated == IsOpen => result'.value = (IF window.impl = "X11Window" THEN WindowOpen ELSE ~WindowOpen)

\* The window is closed by a step only if the step is close_window or a
\* handle_events that took a delete-window message.
ClosedOnlyByThese ==
    (WindowOpen /\ ~WindowOpen')
        => \/ CloseWindow
           \/ HandleEvents /\ HasDeleteMessage(window.pending)

\* C20: handle_events takes every pending event and returns false exactly
\* when one of them is the window manager's delete-window message; after such
\* a call, or after close_window, the window is not open and never opens
\* again whatever events and calls follow; without either it stays open.
C20_ClosedStaysClosed ==
    /\ [][PumpedAsStated /\ ClosedAsStated /\ AnsweredAsStated /\ ClosedOnlyByThese]_vars
    /\ [](~WindowOpen => []~WindowOpen)

\* A handle_events call that took a delete-window message after another
\* event, answered false, on a window that close_window had not closed.
C20_Witness ==
    /\ call.op = "handle_events"
    /\ Len(call.args) >= 2
    /\ ~IsDeleteMessage(call.args[1])
    /\ HasDeleteMessage(call.args)
    /\ result = Returned(FALSE)
    /\ ~WindowOpen


LineDrawn == call.op = "draw_line" /\ result # Pending

MajorLength(p1, p2) ==
    IF IntAbs(p2.x - p1.x) > IntAbs(p2.y - p1.y) THEN IntAbs(p2.x - p1.x) ELSE IntAbs(p2.y - p1.y)

\* Whether the axis along which the pixels advance is x.
MajorIsX(p1, p2) == IntAbs(p2.y - p1.y) < IntAbs(p2.x - p1.x)

PixelSet(pixels) == { pixels[k] : k \in 1..Len(pixels) }

\* One pixel for each coordinate of the major axis, and neighbours at most
\* one apart on the minor axis.
OnePixelPerStep(pixels, major, minor) ==
    \A k \in 1..(Len(pixels) - 1) :
        /\ pixels[k + 1][major] = pixels[k][major] + 1
        /\ IntAbs(pixels[k + 1][minor] - pixels[k][minor]) <= 1

LineAsStated(p1, p2, pixels) ==
    /\ <<p1.x, p1.y>> \in PixelSet(pixels)
    /\ <<p2.x, p2.y>> \in PixelSet(pixels)
    /\ Len(pixels) = MajorLength(p1, p2) + 1
    /\ Cardinality(PixelSet(pixels)) = MajorLength(p1, p2) + 1
    /\ IF MajorIsX(p1, p2) THEN OnePixelPerStep(pixels, 1, 2) ELSE OnePixelPerStep(pixels, 2, 1)
    /\ PixelSet(pixels) = PixelSet(draw_line(p2, p1))

\* C21: draw_line draws both end points, one pixel for each coordinate of the
\* major axis between them (max(|dx|, |dy|) + 1 pixels, neighbours at most one
\* apart on the minor axis), and the same pixels for (p1, p2) and (p2, p1).
C21_LinePixels ==
    LineDrawn =>
        /\ LineAsStated(call.args[1], call.args[2], result.value)
        /\ surface.stores = PixelSet(result.value)

\* A steep line drawn from its upper right end to its lower left end.
C21_Witness ==
    /\ LineDrawn
    /\ call.args[1] = [x |-> 3, y |-> 4]
    /\ call.args[2] = [x |-> 1, y |-> 0]
    /\ Len(result.value) = 5


\* ------------------------------------------ properties of a clip pass

\* A clip pass has just run on prev_triangles and prev_active.
AfterClipPass == stage \in {"near", "left", "right", "top", "bottom"}

NumOutputs(k) == Len(clip_log[k].out_triangles)

\* The length of `triangles` when the k-th triangle of the pass was clipped.
LengthBefore(k) ==
    Len(prev_triangles) + Cardinality({ j \in 1..(k - 1) : NumOutputs(j) = 2 })

\* The indices the first k iterations appended, the last one first.
RECURSIVE AppendedBy(_)
AppendedBy(k) ==
    IF k = 0 THEN <<>>
    ELSE IF NumOutputs(k) = 2 THEN <<LengthBefore(k)>> \o AppendedBy(k - 1)
    ELSE AppendedBy(k - 1)

\* The indices of the iterations from k on that yielded a triangle.
RECURSIVE KeptFrom(_)
KeptFrom(k) ==
    IF k > Len(clip_log) THEN <<>>
    ELSE IF NumOutputs(k) = 0 THEN KeptFrom(k + 1)
    ELSE <<clip_log[k].index>> \o KeptFrom(k + 1)

WasActive(index) == \E k \in 1..Len(prev_active) : prev_active[k] = index

\* What the k-th iteration of the pass did to the slot of its triangle, to
\* the end of `triangles` and to the list.
IterationAsStated(k) ==
    /\ NumOutputs(k) \in {0, 1, 2}
    /\ NumOutputs(k) = 0 =>
           /\ ~IsActive(clip_log[k].index)
           /\ triangles[clip_log[k].index + 1] = prev_triangles[clip_log[k].index + 1]
    /\ NumOutputs(k) = 1 =>
           /\ IsActive(clip_log[k].index)
           /\ triangles[clip_log[k].index + 1] = clip_log[k].out_triangles[1]
    /\ NumOutputs(k) = 2 =>
           /\ IsActive(clip_log[k].index)
           /\ triangles[clip_log[k].index + 1] = clip_log[k].out_triangles[1]
           /\ triangles[LengthBefore(k) + 1] = clip_log[k].out_triangles[2]
           /\ IsActive(LengthBefore(k))

\* C22: in a clip pass, a triangle with no output is removed from the
\* active list and nothing is appended; with one output its slot is
\* overwritten and the list is unchanged; with two outputs its slot takes the
\* first, the second is appended at the previous length of `triangles` and
\* exactly that index is added to the list.  No entry of `triangles` is
\* removed or moved and no slot of an index that is not active changes.
C22_ClipPassEffects ==
    AfterClipPass =>
        /\ \A k \in 1..Len(clip_log) :
               clip_log[k].triangle = prev_triangles[clip_log[k].index + 1] /\ IterationAsStated(k)
        /\ Len(triangles) = LengthBefore(Len(clip_log) + 1)
        /\ active = AppendedBy(Len(clip_log)) \o KeptFrom(1)
        /\ \A index \in 0..(Len(prev_triangles) - 1) :
               ~WasActive(index) => triangles[index + 1] = prev_triangles[index + 1]

\* A pass that split one triangle, trimmed another and met a slot that was
\* not active.
C22_Witness ==
    /\ AfterClipPass
    /\ \E k \in 1..Len(clip_log) : NumOutputs(k) = 2
    /\ \E k \in 1..Len(clip_log) : NumOutputs(k) = 1
    /\ \E index \in 0..(Len(prev_triangles) - 1) : ~WasActive(index)


\* ------------------------------------- the scanlines of draw_shaded_triangle

TriangleDrawn == call.op = "draw_shaded_triangle" /\ result = Done

\* The corners of the call ordered by y: p0, p1, p2 of the statement.
SortedCorners == SortByY(call.args[1], call.args[2], call.args[3])

TriangleHeight == SortedCorners[3].y - SortedCorners[1].y

\* The edge p0 -> p2 advanced n times from p0.
RECURSIVE Advanced(_, _)
Advanced(edge, n) == IF n = 0 THEN edge ELSE Advanced(AdvanceEdge(edge), n - 1)

LongEdgeAt(y) ==
    Advanced(TriangleEdge(SortedCorners[1], SortedCorners[3], TriangleHeight),
             y - SortedCorners[1].y)

RowsAt(y) == { k \in 1..Len(surface.rows) : surface.rows[k].y = y }

\* The filler is called once for each scanline from p0.y to p2.y and for no
\* other, and at each call the long edge has been advanced y - p0.y times.
ScanlinesAsStated ==
    /\ \A y \in SortedCorners[1].y..SortedCorners[3].y : Cardinality(RowsAt(y)) = 1
    /\ Len(surface.rows) = TriangleHeight + 1
    /\ \A k \in 1..Len(surface.rows) :
           /\ surface.rows[k].x_1_3 = LongEdgeAt(surface.rows[k].y).x
           /\ surface.rows[k].attrs_1_3 = LongEdgeAt(surface.rows[k].y).attrs

\* At the last call the long edge is at p2.
LongEdgeEndsAtCorner ==
    /\ surface.rows[Len(surface.rows)].y = SortedCorners[3].y
    /\ surface.rows[Len(surface.rows)].x_1_3 = Num(SortedCorners[3].x)
    /\ surface.rows[Len(surface.rows)].attrs_1_3 = Attributes(SortedCorners[3])

\* C23: for a triangle of non-zero height with corners p0, p1, p2 in the
\* order of y, draw_shaded_triangle calls the scanline filler exactly once for
\* each y from p0.y to p2.y; when scanline y is filled the interpolants of
\* the edge p0 -> p2 have been advanced y - p0.y times, so that on the
\* scanline p2.y they equal p2 in x and in every attribute.
C23_OneRowPerScanline ==
    (TriangleDrawn /\ TriangleHeight > 0) => (ScanlinesAsStated /\ LongEdgeEndsAtCorner)

\* Whether the triangle has a part below p1.y and a part above it.
HasBothHalves ==
    SortedCorners[1].y < SortedCorners[2].y /\ SortedCorners[2].y < SortedCorners[3].y

\* What draw_shaded_triangle does: a triangle with a flat top or a flat
\* bottom is filled as stated; one with both halves has the scanline p1.y
\* filled twice, by the last turn of the lower loop and the first of the
\* upper loop, and from there on the long edge is one step ahead.
C23_MiddleScanlineTwice ==
    (TriangleDrawn /\ TriangleHeight > 0) =>
        /\ ~HasBothHalves => (ScanlinesAsStated /\ LongEdgeEndsAtCorner)
        /\ HasBothHalves =>
               /\ Len(surface.rows) = TriangleHeight + 2
               /\ Cardinality(RowsAt(SortedCorners[2].y)) = 2
               /\ \A y \in SortedCorners[1].y..SortedCorners[3].y :
                      y # SortedCorners[2].y => Cardinality(RowsAt(y)) = 1
               /\ surface.rows[Len(surface.rows)].x_1_3
                      = LongEdgeAt(SortedCorners[3].y + 1).x

\* ------------------------------------------- the ends of the rows of a triangle
\* The rows of the call whose left end is on the edge p0 -> p2.
LongEdgeLeft ==
    { k \in 1..Len(surface.rows) :
          /\ surface.rows[k].p1.x = Trunc(surface.rows[k].x_1_3)
          /\ surface.rows[k].p1.x < surface.rows[k].p2.x }

\* The rows whose right end is on the edge p0 -> p2, or one pixel past it in
\* the upper triangle.
LongEdgeRight ==
    { k \in 1..Len(surface.rows) :
          /\ surface.rows[k].p2.x \in { Trunc(surface.rows[k].x_1_3),
                                         Trunc(surface.rows[k].x_1_3) + 1 }
          /\ surface.rows[k].p1.x < Trunc(surface.rows[k].x_1_3) }

\* The rows where the two edges are at the same pixel.
EdgesMeet ==
    { k \in 1..Len(surface.rows) : surface.rows[k].p1.x = surface.rows[k].p2.x }

\* C24: every call of draw_shaded_row made by draw_shaded_triangle, for any
\* three corners, is given a left end whose int x is not greater than the int
\* x of its right end.
C24_RowEndsOrdered ==
    TriangleDrawn =>
        \A k \in 1..Len(surface.rows) : surface.rows[k].p1.x <= surface.rows[k].p2.x

\* A triangle with both halves has been filled with the long edge on the left
\* of one row and on the right of another, and with a row where the edges
\* meet.
C24_Witness ==
    /\ TriangleDrawn
    /\ HasBothHalves
    /\ LongEdgeLeft # {}
    /\ LongEdgeRight # {}
    /\ EdgesMeet # {}

\* ------------------------------------------------- the texel a fragment reads
TexelRead == call.op = "draw_shaded_row" /\ result.status = "returned"

TexelBitmap == call.args[2]

\* The texture coordinates the fragment was made with.
TexX == RDiv(call.args[1].tex_x_div_z, call.args[1].inv_z)

TexY == RDiv(call.args[1].tex_y_div_z, call.args[1].inv_z)

\* v kept within 0..size - 1.
Within(v, size) == IF v < 0 THEN 0 ELSE IF v > size - 1 THEN size - 1 ELSE v

\* Column and row of the texel of (tex_x, tex_y): rounded, kept within the
\* bitmap, and the row counted from the bottom.
TexelColumn == Within(Round(RMul(TexX, Num(TexelBitmap.width - 1))), TexelBitmap.width)

TexelRow ==
    TexelBitmap.height - 1
        - Within(Round(RMul(TexY, Num(TexelBitmap.height - 1))), TexelBitmap.height)

\* C25: for a bitmap of any width and height from 1 up and any texture
\* coordinates, inside [0, 1] or not, the texel index of draw_shaded_row is
\* within 0..width * height - 1: the column and the row are clamped before
\* the row is flipped, (0, 0) reads column 0 of row height - 1 and (1, 1)
\* reads column width - 1 of row 0; the pixel is drawn with that texel.
C25_TexelIndexInBitmap ==
    TexelRead =>
        /\ result.value \in 0..(TexelBitmap.width * TexelBitmap.height - 1)
        /\ result.value = TexelRow * TexelBitmap.width + TexelColumn
        /\ (TexX = Zero /\ TexY = Zero) =>
               result.value = (TexelBitmap.height - 1) * TexelBitmap.width
        /\ (TexX = One /\ TexY = One) => result.value = TexelBitmap.width - 1
        /\ surface.rgba_buffer[1] = pixel_val(result.value + 1, 0, 0)

\* A fragment with both coordinates outside [0, 1], one below and one above,
\* has read a bitmap of more than one row and more than one column.
C25_Witness ==
    /\ TexelRead
    /\ TexelBitmap.width > 1
    /\ TexelBitmap.height > 1
    /\ RLt(TexX, Zero)
    /\ RGt(TexY, One)
    /\ result.value = 0

\* ------------------------------------------- the bitmap of a textured mesh
\* The bitmap attach_texture gave the mesh of the scene.
AttachedBitmap == scene.models[1].mesh[1].bitmap_ptr

\* The triangle has a bitmap reference and it is this one.
Carries(triangle, bitmap) ==
    "bitmap_ptr" \in DOMAIN triangle /\ triangle.bitmap_ptr = bitmap

\* C26: the bitmap reference of a triangle survives the pipeline: every
\* triangle a clip pass writes back or appends carries the bitmap of the
\* triangle it was clipped from, and the rasteriser is called with the bitmap
\* attach_texture set on the mesh triangle.
C26_BitmapSurvives ==
    /\ AfterClipPass =>
           \A k \in 1..Len(clip_log) :
               \A j \in 1..Len(clip_log[k].out_triangles) :
                   Carries(clip_log[k].triangle, AttachedBitmap)
                       => Carries(clip_log[k].out_triangles[j], AttachedBitmap)
    /\ stage = "drawn" =>
           \A k \in 1..Len(surface.rows) : surface.rows[k].bitmap_ptr = AttachedBitmap

\* Up to the first clip pass the triangles carry the bitmap of their mesh.
C26_BitmapUpToNearPlane ==
    stage \in {"collected", "camera", "culled", "lit"} =>
        \A k \in 1..Len(triangles) : Carries(triangles[k], AttachedBitmap)

\* ------------------------------------------- the iterations of a clip pass
InClipPass == call.op = "clip_triangles"

\* The indices the pass has clipped so far, in the order of their turns.
Clipped == [k \in 1..Len(clip_log) |-> clip_log[k].index]

\* The indices of the triangles appended during the pass.
Appended == Len(prev_triangles)..(Len(triangles) - 1)

NoIndexTwice(list) == \A a, b \in 1..Len(list) : list[a] = list[b] => a = b

\* The turns taken so far were for the indices that were active at the start,
\* one turn each in the order of the list; no appended triangle has had a
\* turn, every appended index is in the list and no index is in it twice.
EachIndexOnce ==
    /\ Len(clip_log) <= Len(prev_active)
    /\ Clipped = SubSeq(prev_active, 1, Len(clip_log))
    /\ \A k \in 1..Len(clip_log) : clip_log[k].index \notin Appended
    /\ \A index \in Appended : \E a \in 1..Len(active) : active[a] = index
    /\ NoIndexTwice(active)
    /\ (stage = "near") => (Len(clip_log) = Len(prev_active))

\* The number of elements of the list from the iterator on.
Remaining == Len(active) + 1 - itr

\* C27: a clip pass terminates: every turn of the loop leaves fewer elements
\* ahead of the iterator, and the pass returns when none is left; it clips
\* each index that was active at its start exactly once; a triangle appended
\* by a split is added to the active list and is not clipped in the same
\* pass; no index is twice in the list.
C27_ClipPassTerminates ==
    /\ [](InClipPass => (EachIndexOnce /\ Remaining >= 0))
    /\ [][ClipStep => (Remaining' < Remaining)]_vars
    /\ [][ClipReturn => (Remaining = 0 /\ Len(clip_log) = Len(prev_active))]_vars

\* A pass over three active triangles has returned after it split two of
\* them and removed the third.
C27_Witness ==
    /\ InClipPass
    /\ stage = "near"
    /\ Len(prev_active) = 3
    /\ Cardinality(Appended) = 2
    /\ Len(active) = 4

\* ------------------------------------------- the calls of the intersection functor
\* The coordinate a pass compares and the bound it compares it with.
AxisOf(plane) ==
    CASE plane = "near" -> 3
      [] plane \in {"left", "right"} -> 1
      [] plane \in {"top", "bottom"} -> 2

BoundOf(plane) ==
    CASE plane = "near" -> view_plane_distance
      [] plane = "left" -> screen_left_bound
      [] plane = "right" -> screen_right_bound
      [] plane = "top" -> screen_top_bound
      [] plane = "bottom" -> screen_bottom_bound

\* The calls of get_intersect in the k-th turn of the pass: the pairs
\* <<i, next_i>> among the sources of the emitted points.
IntersectCalls(k) ==
    { clip_log[k].src[n] : n \in { m \in 1..Len(clip_log[k].src) : Len(clip_log[k].src[m]) = 2 } }

\* The two vertices a call was given.
CallPoint(k, pair, which) == clip_log[k].triangle.points[pair[which] + 1]

\* The difference the functor divides by and the parameter it computes.
Divisor(k, pair) ==
    RSub(CallPoint(k, pair, 2).pos[AxisOf(clip_log[k].plane)],
         CallPoint(k, pair, 1).pos[AxisOf(clip_log[k].plane)])

ScaleOf(k, pair) ==
    RDiv(RSub(BoundOf(clip_log[k].plane), CallPoint(k, pair, 1).pos[AxisOf(clip_log[k].plane)]),
         Divisor(k, pair))

\* C28: in every clip pass the intersection functor is only called on two
\* vertices of which one is in the region and the other is not; the
\* difference it divides by is then not zero and the parameter it computes
\* is within [0, 1].
C28_IntersectOnCrossingEdges ==
    AfterClipPass =>
        \A k \in 1..Len(clip_log) :
            \A pair \in IntersectCalls(k) :
                /\ in_viewing_region(clip_log[k].plane, CallPoint(k, pair, 1))
                       # in_viewing_region(clip_log[k].plane, CallPoint(k, pair, 2))
                /\ Divisor(k, pair) # Zero
                /\ RLe(Zero, ScaleOf(k, pair))
                /\ RLe(ScaleOf(k, pair), One)

\* A screen-edge pass has called the functor on an edge that crosses the
\* bound strictly between its ends.
C28_Witness ==
    /\ stage \in {"left", "right", "top", "bottom"}
    /\ \E k \in 1..Len(clip_log) :
           \E pair \in IntersectCalls(k) :
               RLt(Zero, ScaleOf(k, pair)) /\ RLt(ScaleOf(k, pair), One)

\* ------------------------------------------- the reads of the depth buffer
\* C29: whatever the scanline and the endpoints given to draw_shaded_row,
\* every call of read_depth_buffer(x, y) it makes has 0 <= x < width and
\* 0 <= y < height.
C29_ReadsInsideBuffer ==
    \A xy \in surface.reads : InBuffer(surface, xy[1], xy[2])

\* What holds: one read for each column from the left end to the right end
\* of a row, on the row's scanline, wherever that is.
C29_ReadsWithinRows ==
    \A xy \in surface.reads : xy[1] \in RowXs /\ xy[2] \in RowYs

\* ------------------------------------------- the indices of a face
\* The points of the triangles of the mesh returned.
LoadedPositions ==
    IF result.status = "mesh"
    THEN { result.value[k].points[j].pos : k \in 1..Len(result.value), j \in 1..3 }
    ELSE {}

\* C30: whatever the v, vt, vn and f lines of the file, load_mesh_from_obj
\* reads its vertex list and its texture-coordinate list only at indices
\* within them: a face with a position index or a texture index below 1 or
\* above the number of entries read so far gives no mesh or no triangle, and
\* no read outside a list.
C30_FaceIndicesWithinLists ==
    Loaded =>
        /\ load_mesh_from_obj(call.args).in_range
        /\ result # Crashed
        /\ StrayVertex \notin LoadedPositions

\* What holds: the call reads outside a list exactly when it returns or
\* would return a mesh built from a face whose index is not within the lines
\* read before it, and a file whose face indices are all within them is
\* loaded without such a read.
C30_OutsideOnlyForStrayFaces ==
    Loaded =>
        /\ (result = Crashed) => ~load_mesh_from_obj(call.args).in_range
        /\ (StrayVertex \in LoadedPositions) => ~load_mesh_from_obj(call.args).in_range
        /\ (EveryLineReads(call.args) /\ IndicesInRange(call.args))
               => load_mesh_from_obj(call.args).in_range

====
